---- MODULE Spec2Model ----
(***************************************************************************)
(* Report lifecycle of the civic-report backend: report creation with      *)
(* media upload and compensating rollback, upvote toggling with severity   *)
(* recalculation, admin status changes and rejection, and the embedded     *)
(* history log.  Request handlers are split at their await points; the     *)
(* database applies each save() as the update mongoose sends for it        *)
(* ($set of the modified paths, $push for array pushes, a version check    *)
(* when an array is replaced).  The read-only listings, user management,   *)
(* the protect middleware and the OTP flow of the auth controller act on   *)
(* the same collections.                                                   *)
(***************************************************************************)
EXTENDS Integers, Sequences, FiniteSets, TLC

VARIABLES reports, users, store, nextId, req, upl, resp, severity0, ops, toggles,
          view, accounts, now, otpAttemptStore

vars == <<reports, users, store, nextId, req, upl, resp, severity0, ops, toggles,
          view, accounts, now, otpAttemptStore>>

\* the variables of the listings and of the user accounts, which no report
\* handler writes
others == <<view, accounts, now, otpAttemptStore>>

----------------------------------------------------------------------------
(* Bounds *)

NClients == 2
NUsers == 2
MaxReports == 1
MaxBatch == 3
MaxCreates == 2
MaxOps == 3
MaxVoters == 21
MaxToggles == 23
MaxAdminOps == 3
MaxPlaced == 2
MaxListed == 3
OpsModulus == 2
MaxNow == 60
TickMinutes == 15

Clients == 1 .. NClients
Users == 1 .. NUsers
\* the administrator is the first registered user
AdminId == CHOOSE a \in Users : \A u \in Users : a <= u
Voters == 1 .. MaxVoters
ReportIds == 1 .. MaxReports

NULL == 0

----------------------------------------------------------------------------
(* Schema constants *)

STATUS_ENUM == <<"reported", "acknowledged", "in_progress", "resolved", "closed", "rejected">>
SEVERITY_ENUM == <<"low", "medium", "high", "critical">>
MEDIA_TYPE_ENUM == <<"image", "video", "audio">>

Range(s) == {s[i] : i \in 1 .. Len(s)}

validStatuses == Range(STATUS_ENUM)

MAX_IMAGES_COUNT == 5
MAX_VIDEOS_COUNT == 1
MAX_AUDIO_COUNT == 1

NotesMaxLen == 500
ReasonMinLen == 10
ReasonMaxLen == 500

SevRank(s) == CHOOSE i \in 1 .. Len(SEVERITY_ENUM) : SEVERITY_ENUM[i] = s

\* mutant: Math.max that returns its first argument
MaxFirst(a, b) == a

Max(a, b) == IF a >= b THEN a ELSE b

IsPrefix(s, t) == Len(s) <= Len(t) /\ \A i \in 1 .. Len(s) : s[i] = t[i]

----------------------------------------------------------------------------
(* Inputs *)

StatusInputs == validStatuses \cup {"bogus"}
NotesInputs == {"", "crew sent"}
ReasonInputs == {"", "too short", "duplicate report"}
SeverityInputs == Range(SEVERITY_ENUM)
AdminStatusInputs == {"acknowledged", "resolved"}

\* a reason of n characters without surrounding whitespace: the handlers read
\* the reason through reason.trim() only, apart from the emptiness test
RECURSIVE ReasonOfLen(_)
ReasonOfLen(n) ==
  IF n = 0 THEN ""
  ELSE IF n % 2 = 0 THEN LET half == ReasonOfLen(n \div 2) IN half \o half
  ELSE ReasonOfLen(n - 1) \o "x"

\* reasons at the edges of the accepted lengths
BoundaryReasons ==
  {"", ReasonOfLen(ReasonMinLen - 1), ReasonOfLen(ReasonMinLen),
   ReasonOfLen(ReasonMaxLen), ReasonOfLen(ReasonMaxLen + 1)}

\* req.files as multer delivers it: images, then videos, then audio
FilesOf(ni, nv, na) ==
  [i \in 1 .. (ni + nv + na) |->
     IF i <= ni THEN "image" ELSE IF i <= ni + nv THEN "video" ELSE "audio"]

FileInputs ==
  {FilesOf(ni, nv, na) : ni \in 0 .. MAX_IMAGES_COUNT, nv \in 0 .. MAX_VIDEOS_COUNT,
                         na \in 0 .. MAX_AUDIO_COUNT}

FilesUpTo(n) == {f \in FileInputs : Len(f) >= 1 /\ Len(f) <= n}

----------------------------------------------------------------------------
(* Documents *)

Entry(status, kind, arg, n, updatedBy) ==
  [status |-> status, kind |-> kind, arg |-> arg, n |-> n, updatedBy |-> updatedBy]

\* the notes text of a history entry, as the handler or the hook composes it
NotesText(e) ==
  CASE e.kind = "created" -> "Report created"
    [] e.kind = "status" -> "Status changed to " \o e.arg
    [] e.kind = "rejected" -> "Rejected: " \o e.arg
    [] e.kind = "reason" -> "Rejection reason: " \o e.arg
    [] e.kind = "severity" ->
         "Severity upgraded to " \o e.arg \o " due to " \o ToString(e.n) \o " upvotes"
    [] OTHER -> e.arg

\* length of the notes text of a history entry
NotesLen(e) == Len(NotesText(e))

NoDoc ==
  [status |-> "none", severity |-> "none", user |-> NULL, media |-> <<>>,
   history |-> <<>>, rejectionReason |-> "", upvotes |-> 0, upvotedBy |-> <<>>,
   v |-> 0, location |-> [lat |-> 0, lng |-> 0]]

\* new Report({...}) in createReport, before media and history are added
NewReport(userId, severity) ==
  [status |-> "reported", severity |-> severity, user |-> userId, media |-> <<>>,
   history |-> <<>>, rejectionReason |-> "", upvotes |-> 0, upvotedBy |-> <<>>,
   v |-> 0, location |-> [lat |-> 0, lng |-> 0]]

----------------------------------------------------------------------------
(* Pure functions of the controllers and the schema *)

\* mutant: the high threshold compared with > instead of >=
calculateSeverityStrict(originalSeverity, upvoteCount) ==
  IF upvoteCount >= 20 THEN "critical"
  ELSE IF upvoteCount > 10 THEN "high"
  ELSE IF upvoteCount >= 5 /\ originalSeverity = "low" THEN "medium"
  ELSE originalSeverity

calculateSeverity(originalSeverity, upvoteCount) ==
  IF upvoteCount >= 20 THEN "critical"
  ELSE IF upvoteCount >= 10 THEN "high"
  ELSE IF upvoteCount >= 5 /\ originalSeverity = "low" THEN "medium"
  ELSE originalSeverity

\* validator of rejectionReason: a reason may only be set on a rejected report
RejectionReasonValid(doc) ==
  ~(doc.rejectionReason # "" /\ doc.status # "rejected")

\* schema validation that save() runs on the in-memory document, before the
\* pre('save') hook of the schema
DocValid(doc) ==
  /\ doc.status \in Range(STATUS_ENUM)
  /\ doc.severity \in Range(SEVERITY_ENUM)
  /\ Len(doc.rejectionReason) <= ReasonMaxLen
  /\ RejectionReasonValid(doc)
  /\ \A i \in 1 .. Len(doc.history) :
       /\ doc.history[i].status \in Range(STATUS_ENUM)
       /\ NotesLen(doc.history[i]) <= NotesMaxLen
  /\ \A i \in 1 .. Len(doc.media) : doc.media[i].type \in Range(MEDIA_TYPE_ENUM)

\* entries the pre('save') hook pushes onto history
PreSavePushed(doc, isNew, statusModified, updatedBy) ==
  IF isNew
  THEN <<Entry(doc.status, "created", "", 0, updatedBy)>> \o
       (IF doc.status = "rejected" /\ doc.rejectionReason # ""
        THEN <<Entry("rejected", "reason", doc.rejectionReason, 0, updatedBy)>>
        ELSE <<>>)
  ELSE IF statusModified
  THEN (IF doc.status = "rejected" /\ doc.rejectionReason # ""
        THEN <<Entry(doc.status, "rejected", doc.rejectionReason, 0, updatedBy)>>
        ELSE <<Entry(doc.status, "status", doc.status, 0, updatedBy)>>)
  ELSE <<>>

\* public id Cloudinary stores the k-th file of the request for report rid under
PublicId(rid, k) == <<rid, k>>

\* what cloudinary.uploader.destroy does: it resolves with result 'ok' or
\* 'not found', or it rejects
DestroyOutcomes == {"ok", "not found", "error"}

\* mutant: deleteMedia lets the error of the store escape
deleteMediaThrows(outcome) ==
  IF outcome = "error" THEN [threw |-> TRUE, value |-> FALSE]
  ELSE [threw |-> FALSE, value |-> (outcome = "ok")]

\* deleteMedia: result.result === 'ok', and false from the catch block
deleteMedia(outcome) ==
  IF outcome = "error" THEN [threw |-> FALSE, value |-> FALSE]
  ELSE [threw |-> FALSE, value |-> (outcome = "ok")]

----------------------------------------------------------------------------
(* Requests and responses *)

\* a request in flight: its position, its inputs and the document it loaded
IdleReq ==
  [pc |-> "idle", op |-> "none", rid |-> 0, uid |-> NULL, arg |-> "", notes |-> "",
   doc |-> NoDoc]

Request(pc, op, rid, uid, arg, notes, doc) ==
  [pc |-> pc, op |-> op, rid |-> rid, uid |-> uid, arg |-> arg, notes |-> notes,
   doc |-> doc]

\* upload bookkeeping of a createReport request: req.files, uploadedPublicIds,
\* the deletes issued by the rollback, the results lists of deleteMultipleMedia,
\* the index of the failed upload; abortedAt is the number of files uploaded when
\* the caller closed the connection, 0 while the connection is open
IdleUpl ==
  [files |-> <<>>, uploaded |-> <<>>, issued |-> <<>>, success |-> <<>>, failed |-> <<>>,
   failedAt |-> 0, next |-> 0, abortedAt |-> 0]

\* the response sent last, with the request it answers
NoResp ==
  [op |-> "none", code |-> 0, rid |-> 0, uid |-> NULL, arg |-> "", notes |-> "",
   upvotes |-> 0, severity |-> "none", hasUpvoted |-> FALSE, severityUpgraded |-> FALSE,
   files |-> <<>>, failedAt |-> 0, issued |-> <<>>, success |-> <<>>, failed |-> <<>>,
   error |-> "none", abortedAt |-> 0]

Resp(op, code, rid, uid, arg) ==
  [NoResp EXCEPT !.op = op, !.code = code, !.rid = rid, !.uid = uid, !.arg = arg]

Exists(rid) == rid \in DOMAIN reports

\* a :reportId that is no ObjectId (not 24 hex digits): findById throws a
\* CastError for it, which the catch block of the handler answers with 500
MalformedId == 0 - 1

\* history variables of the model: severity0 keeps the severity each report was
\* created with, ops counts the requests admitted, toggles keeps the last two
\* completed upvote toggles and whether any toggle removed an upvote
NoToggles == [log |-> <<>>, removed |-> FALSE]

\* the last answer of a read-only listing, with the query it ran
NoView ==
  [op |-> "none", code |-> 0, given |-> <<>>, queried |-> FALSE, query |-> <<>>,
   items |-> <<>>, total |-> 0, pages |-> 0]

\* a user document as User.create stores it for a verified local account: the
\* schema defaults, hasOtp for verificationOTP # null, 0 for a null date
Account(role) ==
  [role |-> role, isActive |-> TRUE, isVerified |-> TRUE, hasOtp |-> FALSE,
   otp |-> 0, otpExpires |-> 0, otpAttempts |-> 0, otpLockedUntil |-> 0,
   otpRequestCount |-> 0, otpRequestResetAt |-> 0]

\* the otpAttemptStore Map of the rate limiter module, by the user an email
\* belongs to; empty at start-up (known is FALSE for a key not in the map)
NoAttempts == [u \in Users |-> [count |-> 0, resetAt |-> 0, known |-> FALSE]]

\* no listing answered, the admin and the other users verified and active
InitOthers ==
  /\ view = NoView
  /\ accounts = [u \in Users |-> Account(IF u = AdminId THEN "admin" ELSE "user")]
  /\ now = 0
  /\ otpAttemptStore = NoAttempts

----------------------------------------------------------------------------
(* Initial state: an empty report collection, the registered users *)

Init ==
  /\ reports = <<>>
  /\ users = Users
  /\ store = {}
  /\ nextId = 1
  /\ req = [c \in Clients |-> IdleReq]
  /\ upl = [c \in Clients |-> IdleUpl]
  /\ resp = NoResp
  /\ severity0 = <<>>
  /\ ops = 0
  /\ toggles = NoToggles
  /\ InitOthers

----------------------------------------------------------------------------
(* createReport *)

CreateResp(c, code) ==
  [Resp("create", code, req[c].rid, req[c].uid, req[c].arg) EXCEPT
     !.files = upl[c].files, !.abortedAt = upl[c].abortedAt]

\* mutant: a request without files is passed on to createReport, where
\* uploadReportMedia returns an empty media array
CreateNoFileProceeds(c, u, sev) ==
  /\ req[c].pc = "idle" /\ u \in users
  /\ req' = [req EXCEPT ![c] = Request("cr_save", "create", nextId, u, sev, "",
                                        NewReport(u, sev))]
  /\ nextId' = nextId + 1
  /\ UNCHANGED <<reports, users, store, upl, resp, severity0>>

\* requireAtLeastOneFile answers 400 for a request without files
CreateNoFile(c, u, sev) ==
  /\ req[c].pc = "idle" /\ u \in users
  /\ resp' = Resp("create", 400, 0, u, sev)
  /\ UNCHANGED <<reports, users, store, nextId, req, upl, severity0>>

\* new Report(...) allocates the id; uploadReportMedia starts with the first file
CreateStart(c, u, sev, files) ==
  /\ req[c].pc = "idle" /\ u \in users
  /\ Len(files) > 0
  /\ req' = [req EXCEPT ![c] = Request("cr_upload", "create", nextId, u, sev, "",
                                        NewReport(u, sev))]
  /\ upl' = [upl EXCEPT ![c] = [IdleUpl EXCEPT !.files = files, !.next = 1]]
  /\ nextId' = nextId + 1
  /\ UNCHANGED <<reports, users, store, resp, severity0>>

\* one uploadImage / uploadVideo / uploadAudio call resolves
CreateUploadOk(c) ==
  /\ req[c].pc = "cr_upload"
  /\ LET k == upl[c].next
         m == [type |-> upl[c].files[k], publicId |-> PublicId(req[c].rid, k)]
     IN /\ store' = store \cup {m.publicId}
        /\ upl' = [upl EXCEPT ![c].uploaded = Append(@, m), ![c].next = k + 1]
        /\ req' = [req EXCEPT ![c].pc =
                     IF k = Len(upl[c].files) THEN "cr_save" ELSE "cr_upload"]
  /\ UNCHANGED <<reports, users, nextId, resp, severity0>>

\* mutant: the failure is answered at once, and the rollback is left out
CreateUploadFailEarly(c) ==
  /\ req[c].pc = "cr_upload"
  /\ req' = [req EXCEPT ![c] = IdleReq]
  /\ upl' = [upl EXCEPT ![c] = IdleUpl]
  /\ resp' = [CreateResp(c, 500) EXCEPT !.failedAt = upl[c].next, !.error = "upload"]
  /\ UNCHANGED <<reports, users, store, nextId, severity0>>

\* one upload rejects: the catch block of uploadReportMedia starts the rollback,
\* or rethrows at once when nothing was uploaded, and createReport answers 500
CreateUploadFail(c) ==
  /\ req[c].pc = "cr_upload"
  /\ IF Len(upl[c].uploaded) > 0
     THEN /\ req' = [req EXCEPT ![c].pc = "cr_rollback"]
          /\ upl' = [upl EXCEPT ![c].failedAt = upl[c].next, ![c].next = 1]
          /\ resp' = resp
     ELSE /\ req' = [req EXCEPT ![c] = IdleReq]
          /\ upl' = [upl EXCEPT ![c] = IdleUpl]
          /\ resp' = [CreateResp(c, 500) EXCEPT !.failedAt = upl[c].next,
                                                !.error = "upload"]
  /\ UNCHANGED <<reports, users, store, nextId, severity0>>

\* the caller closes the connection while uploadReportMedia is between two
\* uploads: neither createReport nor uploadReportMedia listens for it, so the
\* request goes on as before
CreateAbort(c) ==
  /\ req[c].pc = "cr_upload"
  /\ Len(upl[c].uploaded) > 0 /\ upl[c].abortedAt = 0
  /\ upl' = [upl EXCEPT ![c].abortedAt = Len(upl[c].uploaded)]
  /\ UNCHANGED <<reports, users, store, nextId, req, resp, severity0>>

\* the response of createReport after the rollback: the error it carries is the
\* one uploadReportMedia throws
RollbackResp(c, issued, success, failed, error) ==
  [CreateResp(c, 500) EXCEPT
     !.failedAt = upl[c].failedAt, !.issued = issued, !.success = success,
     !.failed = failed, !.error = error]

\* mutant: a failed deleteMedia aborts the batch
CreateRollbackAborts(c, outcome) ==
  /\ req[c].pc = "cr_rollback"
  /\ LET j == upl[c].next
         m == upl[c].uploaded[j]
         deleted == deleteMedia(outcome)
         issued == Append(upl[c].issued, m.publicId)
         success == IF deleted.value THEN Append(upl[c].success, m.publicId)
                    ELSE upl[c].success
         failed == IF deleted.value THEN upl[c].failed
                   ELSE Append(upl[c].failed, m.publicId)
     IN /\ store' = IF outcome = "ok" THEN store \ {m.publicId} ELSE store
        /\ IF j = Len(upl[c].uploaded) \/ ~deleted.value
           THEN /\ req' = [req EXCEPT ![c] = IdleReq]
                /\ upl' = [upl EXCEPT ![c] = IdleUpl]
                /\ resp' = RollbackResp(c, issued, success, failed, "upload")
           ELSE /\ req' = req
                /\ upl' = [upl EXCEPT ![c].issued = issued, ![c].success = success,
                                      ![c].failed = failed, ![c].next = j + 1]
                /\ resp' = resp
  /\ UNCHANGED <<reports, users, nextId, severity0>>

\* mutant: the rollback, once a delete has failed, answers with its own error
CreateRollbackEscalates(c, outcome) ==
  /\ req[c].pc = "cr_rollback"
  /\ LET j == upl[c].next
         m == upl[c].uploaded[j]
         deleted == deleteMedia(outcome)
         issued == Append(upl[c].issued, m.publicId)
         success == IF deleted.value THEN Append(upl[c].success, m.publicId)
                    ELSE upl[c].success
         failed == IF deleted.value THEN upl[c].failed
                   ELSE Append(upl[c].failed, m.publicId)
     IN /\ store' = IF outcome = "ok" THEN store \ {m.publicId} ELSE store
        /\ IF j = Len(upl[c].uploaded)
           THEN /\ req' = [req EXCEPT ![c] = IdleReq]
                /\ upl' = [upl EXCEPT ![c] = IdleUpl]
                /\ resp' = RollbackResp(c, issued, success, failed,
                                        IF failed = <<>> THEN "upload" ELSE "delete")
           ELSE /\ req' = req
                /\ upl' = [upl EXCEPT ![c].issued = issued, ![c].success = success,
                                      ![c].failed = failed, ![c].next = j + 1]
                /\ resp' = resp
  /\ UNCHANGED <<reports, users, nextId, severity0>>

\* deleteMultipleMedia: one deleteMedia call and the push onto results.success
\* or results.failed; an exception of deleteMedia would leave the loop and
\* uploadReportMedia with it.  After the last call uploadReportMedia rethrows
\* the upload error and createReport answers 500
CreateRollback(c, outcome) ==
  /\ req[c].pc = "cr_rollback"
  /\ LET j == upl[c].next
         m == upl[c].uploaded[j]
         deleted == deleteMedia(outcome)
         issued == Append(upl[c].issued, m.publicId)
         success == IF deleted.value THEN Append(upl[c].success, m.publicId)
                    ELSE upl[c].success
         failed == IF deleted.value THEN upl[c].failed
                   ELSE Append(upl[c].failed, m.publicId)
     IN /\ store' = IF outcome = "ok" THEN store \ {m.publicId} ELSE store
        /\ IF deleted.threw
           THEN /\ req' = [req EXCEPT ![c] = IdleReq]
                /\ upl' = [upl EXCEPT ![c] = IdleUpl]
                /\ resp' = RollbackResp(c, issued, upl[c].success, upl[c].failed, "delete")
           ELSE IF j = Len(upl[c].uploaded)
           THEN /\ req' = [req EXCEPT ![c] = IdleReq]
                /\ upl' = [upl EXCEPT ![c] = IdleUpl]
                /\ resp' = RollbackResp(c, issued, success, failed, "upload")
           ELSE /\ req' = req
                /\ upl' = [upl EXCEPT ![c].issued = issued, ![c].success = success,
                                      ![c].failed = failed, ![c].next = j + 1]
                /\ resp' = resp
  /\ UNCHANGED <<reports, users, nextId, severity0>>

\* mutant: the media array is stored last upload first
CreateDocReversed(doc, uploaded, userId) ==
  LET mem == [doc EXCEPT !.media = [i \in 1 .. Len(uploaded) |->
                                      uploaded[Len(uploaded) + 1 - i]]]
  IN [mem EXCEPT !.history = @ \o PreSavePushed(mem, TRUE, FALSE, userId)]

\* the document createReport saves: the uploaded media, then the history
\* entry of the pre('save') hook
CreateDoc(doc, uploaded, userId) ==
  LET mem == [doc EXCEPT !.media = [i \in 1 .. Len(uploaded) |-> uploaded[i]]]
  IN [mem EXCEPT !.history = @ \o PreSavePushed(mem, TRUE, FALSE, userId)]

\* report.media = ..., setUpdatingUser, report.save() of the new document; the
\* insert can fail in the database
CreateSave(c, dbOk) ==
  /\ req[c].pc = "cr_save"
  /\ LET doc == CreateDoc(req[c].doc, upl[c].uploaded, req[c].uid)
     IN IF dbOk /\ DocValid([doc EXCEPT !.history = <<>>])
        THEN /\ reports' = (req[c].rid :> doc) @@ reports
             /\ severity0' = (req[c].rid :> req[c].arg) @@ severity0
             /\ resp' = [CreateResp(c, 201) EXCEPT
                           !.upvotes = doc.upvotes, !.severity = doc.severity]
        ELSE /\ reports' = reports
             /\ severity0' = severity0
             /\ resp' = [CreateResp(c, 500) EXCEPT !.error = "server"]
  /\ req' = [req EXCEPT ![c] = IdleReq]
  /\ upl' = [upl EXCEPT ![c] = IdleUpl]
  /\ UNCHANGED <<users, store, nextId>>

----------------------------------------------------------------------------
(* upvoteReport *)

HasUpvoted(doc, u) == \E i \in 1 .. Len(doc.upvotedBy) : doc.upvotedBy[i] = u

\* mutant: the severity entry is attributed to the user who toggled
UpvoteMemByUser(doc, u) ==
  LET toggled ==
        IF HasUpvoted(doc, u)
        THEN [doc EXCEPT !.upvotedBy = SelectSeq(doc.upvotedBy, LAMBDA x : x # u),
                         !.upvotes = Max(0, doc.upvotes - 1)]
        ELSE [doc EXCEPT !.upvotedBy = Append(doc.upvotedBy, u),
                         !.upvotes = doc.upvotes + 1]
      originalSeverity == doc.severity
      newSeverity == calculateSeverity(originalSeverity, toggled.upvotes)
  IN IF newSeverity # toggled.severity
     THEN [toggled EXCEPT
             !.severity = newSeverity,
             !.history = Append(@, Entry(toggled.status, "severity", newSeverity,
                                         toggled.upvotes, u))]
     ELSE toggled

\* the in-memory document after the handler's modifications, before save()
UpvoteMem(doc, u) ==
  LET toggled ==
        IF HasUpvoted(doc, u)
        THEN [doc EXCEPT !.upvotedBy = SelectSeq(doc.upvotedBy, LAMBDA x : x # u),
                         !.upvotes = Max(0, doc.upvotes - 1)]
        ELSE [doc EXCEPT !.upvotedBy = Append(doc.upvotedBy, u),
                         !.upvotes = doc.upvotes + 1]
      originalSeverity == doc.severity
      newSeverity == calculateSeverity(originalSeverity, toggled.upvotes)
  IN IF newSeverity # toggled.severity
     THEN [toggled EXCEPT
             !.severity = newSeverity,
             !.history = Append(@, Entry(toggled.status, "severity", newSeverity,
                                         toggled.upvotes, NULL))]
     ELSE toggled

\* a save() that replaced the upvotedBy array carries the version in its filter
UpvoteVersionOk(db, doc, u) == HasUpvoted(doc, u) => db.v = doc.v

\* the update save() sends for the toggled document, applied to the stored one:
\* $push of the new voter or $set of the filtered array, $set of the modified
\* scalars, $push of the new history entries, $inc of the version
UpvoteDb(db, doc, u) ==
  LET mem == UpvoteMem(doc, u)
  IN [db EXCEPT
        !.upvotedBy = IF HasUpvoted(doc, u) THEN mem.upvotedBy ELSE Append(db.upvotedBy, u),
        !.upvotes = IF mem.upvotes # doc.upvotes THEN mem.upvotes ELSE db.upvotes,
        !.severity = IF mem.severity # doc.severity THEN mem.severity ELSE db.severity,
        !.history = db.history \o SubSeq(mem.history, Len(doc.history) + 1, Len(mem.history)),
        !.v = db.v + 1]

UpvoteResp(doc, u, rid) ==
  LET mem == UpvoteMem(doc, u)
  IN [Resp("upvote", 200, rid, u, "") EXCEPT
        !.upvotes = mem.upvotes, !.severity = mem.severity,
        !.hasUpvoted = ~HasUpvoted(doc, u),
        !.severityUpgraded = (mem.severity # doc.severity)]

\* Report.findById
UpvoteFind(c, u, rid) ==
  /\ req[c].pc = "idle" /\ u \in users
  /\ IF rid = MalformedId
     THEN /\ req' = req
          /\ resp' = Resp("upvote", 500, rid, u, "")
     ELSE IF Exists(rid)
     THEN /\ req' = [req EXCEPT ![c] = Request("up_save", "upvote", rid, u, "", "",
                                                reports[rid])]
          /\ resp' = resp
     ELSE /\ req' = req
          /\ resp' = Resp("upvote", 404, rid, u, "")
  /\ UNCHANGED <<reports, users, store, nextId, upl, severity0>>

\* toggle, recalculate severity, report.save()
UpvoteSave(c) ==
  /\ req[c].pc = "up_save"
  /\ LET rid == req[c].rid
         u == req[c].uid
         doc == req[c].doc
     IN IF DocValid(UpvoteMem(doc, u)) /\ UpvoteVersionOk(reports[rid], doc, u)
        THEN /\ reports' = [reports EXCEPT ![rid] = UpvoteDb(reports[rid], doc, u)]
             /\ resp' = UpvoteResp(doc, u, rid)
        ELSE /\ reports' = reports
             /\ resp' = Resp("upvote", 500, rid, u, "")
  /\ req' = [req EXCEPT ![c] = IdleReq]
  /\ UNCHANGED <<users, store, nextId, upl, severity0>>

----------------------------------------------------------------------------
(* updateReportStatus *)

\* the in-memory document after status = ..., and the notes entry if notes given
StatusMem(doc, status, notes, adminId) ==
  [doc EXCEPT
     !.status = status,
     !.history = IF notes # ""
                 THEN Append(@, Entry(status, "admin", notes, 0, adminId))
                 ELSE @]

\* entries save() pushes: the handler's notes entry, then the pre('save') entry
StatusPushed(doc, status, notes, adminId) ==
  LET mem == StatusMem(doc, status, notes, adminId)
  IN SubSeq(mem.history, Len(doc.history) + 1, Len(mem.history)) \o
     PreSavePushed(mem, FALSE, mem.status # doc.status, adminId)

\* mutant: save() writes the whole history array of the loaded document
StatusDbOverwrite(db, doc, status, notes, adminId) ==
  [db EXCEPT !.status = status,
             !.history = doc.history \o StatusPushed(doc, status, notes, adminId),
             !.v = db.v + 1]

StatusDb(db, doc, status, notes, adminId) ==
  [db EXCEPT !.status = status,
             !.history = db.history \o StatusPushed(doc, status, notes, adminId),
             !.v = db.v + 1]

StatusResp(code, rid, a, status, notes) ==
  [Resp("status", code, rid, a, status) EXCEPT !.notes = notes]

\* mutant: the already-in-status check is missing
StatusFindNoCheck(c, a, rid, status, notes) ==
  /\ req[c].pc = "idle" /\ a \in users
  /\ IF status \notin validStatuses
     THEN /\ req' = req
          /\ resp' = StatusResp(400, rid, a, status, notes)
     ELSE IF rid = MalformedId
     THEN /\ req' = req
          /\ resp' = StatusResp(500, rid, a, status, notes)
     ELSE IF ~Exists(rid)
     THEN /\ req' = req
          /\ resp' = StatusResp(404, rid, a, status, notes)
     ELSE /\ req' = [req EXCEPT ![c] = Request("st_save", "status", rid, a, status, notes,
                                                reports[rid])]
          /\ resp' = resp
  /\ UNCHANGED <<reports, users, store, nextId, upl, severity0>>

\* validation of status, Report.findById, the already-in-status check
StatusFind(c, a, rid, status, notes) ==
  /\ req[c].pc = "idle" /\ a \in users
  /\ IF status \notin validStatuses
     THEN /\ req' = req
          /\ resp' = StatusResp(400, rid, a, status, notes)
     ELSE IF rid = MalformedId
     THEN /\ req' = req
          /\ resp' = StatusResp(500, rid, a, status, notes)
     ELSE IF ~Exists(rid)
     THEN /\ req' = req
          /\ resp' = StatusResp(404, rid, a, status, notes)
     ELSE IF reports[rid].status = status
     THEN /\ req' = req
          /\ resp' = StatusResp(400, rid, a, status, notes)
     ELSE /\ req' = [req EXCEPT ![c] = Request("st_save", "status", rid, a, status, notes,
                                                reports[rid])]
          /\ resp' = resp
  /\ UNCHANGED <<reports, users, store, nextId, upl, severity0>>

\* report.status = status, the notes entry, report.save()
StatusSave(c) ==
  /\ req[c].pc = "st_save"
  /\ LET rid == req[c].rid
         a == req[c].uid
         doc == req[c].doc
     IN IF DocValid(StatusMem(doc, req[c].arg, req[c].notes, a))
        THEN /\ reports' = [reports EXCEPT ![rid] =
                              StatusDb(reports[rid], doc, req[c].arg, req[c].notes, a)]
             /\ resp' = StatusResp(200, rid, a, req[c].arg, req[c].notes)
        ELSE /\ reports' = reports
             /\ resp' = StatusResp(500, rid, a, req[c].arg, req[c].notes)
  /\ req' = [req EXCEPT ![c] = IdleReq]
  /\ UNCHANGED <<users, store, nextId, upl, severity0>>

----------------------------------------------------------------------------
(* rejectReport *)

\* mutant: the bounds of the reason length are exclusive
ReasonOkStrict(reason) ==
  reason # "" /\ Len(reason) > ReasonMinLen /\ Len(reason) < ReasonMaxLen

\* the checks of validateRejectReport and of rejectReport on the trimmed reason
ReasonOk(reason) ==
  reason # "" /\ Len(reason) >= ReasonMinLen /\ Len(reason) <= ReasonMaxLen

RejectMem(doc, reason) == [doc EXCEPT !.status = "rejected", !.rejectionReason = reason]

\* mutant: the hook also tracks the rejection reason in an entry of its own
RejectDbTwoEntries(db, doc, reason, adminId) ==
  LET mem == RejectMem(doc, reason)
  IN [db EXCEPT !.status = "rejected",
                !.rejectionReason = reason,
                !.history = db.history \o
                            PreSavePushed(mem, FALSE, mem.status # doc.status, adminId) \o
                            <<Entry("rejected", "reason", reason, 0, adminId)>>,
                !.v = db.v + 1]

\* mutant: save() writes the whole document as the handler loaded it
RejectDbWhole(db, doc, reason, adminId) ==
  LET mem == RejectMem(doc, reason)
  IN [mem EXCEPT !.history = doc.history \o
                             PreSavePushed(mem, FALSE, mem.status # doc.status, adminId),
                 !.v = db.v + 1]

RejectDb(db, doc, reason, adminId) ==
  LET mem == RejectMem(doc, reason)
  IN [db EXCEPT !.status = "rejected",
                !.rejectionReason = reason,
                !.history = db.history \o
                            PreSavePushed(mem, FALSE, mem.status # doc.status, adminId),
                !.v = db.v + 1]

\* mutant: the already-rejected check is missing
RejectFindNoCheck(c, a, rid, reason) ==
  /\ req[c].pc = "idle" /\ a \in users
  /\ IF ~ReasonOk(reason)
     THEN /\ req' = req
          /\ resp' = Resp("reject", 400, rid, a, reason)
     ELSE IF rid = MalformedId
     THEN /\ req' = req
          /\ resp' = Resp("reject", 500, rid, a, reason)
     ELSE IF ~Exists(rid)
     THEN /\ req' = req
          /\ resp' = Resp("reject", 404, rid, a, reason)
     ELSE /\ req' = [req EXCEPT ![c] = Request("rj_save", "reject", rid, a, reason, "",
                                                reports[rid])]
          /\ resp' = resp
  /\ UNCHANGED <<reports, users, store, nextId, upl, severity0>>

\* validation of reason, Report.findById, the already-rejected check
RejectFind(c, a, rid, reason) ==
  /\ req[c].pc = "idle" /\ a \in users
  /\ IF ~ReasonOk(reason)
     THEN /\ req' = req
          /\ resp' = Resp("reject", 400, rid, a, reason)
     ELSE IF rid = MalformedId
     THEN /\ req' = req
          /\ resp' = Resp("reject", 500, rid, a, reason)
     ELSE IF ~Exists(rid)
     THEN /\ req' = req
          /\ resp' = Resp("reject", 404, rid, a, reason)
     ELSE IF reports[rid].status = "rejected"
     THEN /\ req' = req
          /\ resp' = Resp("reject", 400, rid, a, reason)
     ELSE /\ req' = [req EXCEPT ![c] = Request("rj_save", "reject", rid, a, reason, "",
                                                reports[rid])]
          /\ resp' = resp
  /\ UNCHANGED <<reports, users, store, nextId, upl, severity0>>

\* status = 'rejected', rejectionReason = reason, report.save()
RejectSave(c) ==
  /\ req[c].pc = "rj_save"
  /\ LET rid == req[c].rid
         a == req[c].uid
         doc == req[c].doc
     IN IF DocValid(RejectMem(doc, req[c].arg))
        THEN /\ reports' = [reports EXCEPT ![rid] = RejectDb(reports[rid], doc, req[c].arg, a)]
             /\ resp' = Resp("reject", 200, rid, a, req[c].arg)
        ELSE /\ reports' = reports
             /\ resp' = Resp("reject", 500, rid, a, req[c].arg)
  /\ req' = [req EXCEPT ![c] = IdleReq]
  /\ UNCHANGED <<users, store, nextId, upl, severity0>>

----------------------------------------------------------------------------
(* deleteUser *)

\* User.findById and the self-deletion check
DeleteUserFind(c, a, u) ==
  /\ req[c].pc = "idle" /\ a \in users
  /\ IF u \notin users
     THEN /\ req' = req
          /\ resp' = Resp("deleteUser", 404, u, a, "")
     ELSE IF u = a
     THEN /\ req' = req
          /\ resp' = Resp("deleteUser", 400, u, a, "")
     ELSE /\ req' = [req EXCEPT ![c] = Request("du_delete", "deleteUser", u, a, "", "", NoDoc)]
          /\ resp' = resp
  /\ UNCHANGED <<reports, users, store, nextId, upl, severity0>>

\* User.findByIdAndDelete
DeleteUserDelete(c) ==
  /\ req[c].pc = "du_delete"
  /\ users' = users \ {req[c].rid}
  /\ req' = [req EXCEPT ![c].pc = "du_update"]
  /\ UNCHANGED <<reports, store, nextId, upl, resp, severity0>>

\* mutant: the reports of the deleted user are deleted with the account
DeleteUserUpdateRemoves(c) ==
  /\ req[c].pc = "du_update"
  /\ reports' = [r \in {q \in DOMAIN reports : reports[q].user # req[c].rid} |->
                   reports[r]]
  /\ resp' = Resp("deleteUser", 200, req[c].rid, req[c].uid, "")
  /\ req' = [req EXCEPT ![c] = IdleReq]
  /\ UNCHANGED <<users, store, nextId, upl, severity0>>

\* Report.updateMany({ user }, { $set: { user: null } })
DeleteUserUpdate(c) ==
  /\ req[c].pc = "du_update"
  /\ reports' = [r \in DOMAIN reports |->
                   IF reports[r].user = req[c].rid
                   THEN [reports[r] EXCEPT !.user = NULL]
                   ELSE reports[r]]
  /\ resp' = Resp("deleteUser", 200, req[c].rid, req[c].uid, "")
  /\ req' = [req EXCEPT ![c] = IdleReq]
  /\ UNCHANGED <<users, store, nextId, upl, severity0>>

----------------------------------------------------------------------------
(* protect, restrictTo *)

\* mutant: protect does not look at isActive
protectByToken(u) ==
  IF u \notin users THEN 401
  ELSE IF ~accounts[u].isVerified THEN 403
  ELSE 200

\* protect for a request that carries an unexpired token of user u: the status
\* it answers, or 200 when it calls next()
protect(u) ==
  IF u \notin users THEN 401
  ELSE IF ~accounts[u].isActive THEN 403
  ELSE IF ~accounts[u].isVerified THEN 403
  ELSE 200

\* mutant: restrictTo lets every role through
restrictToAnyRole(u) == protect(u)

\* restrictTo('admin') behind protect
restrictTo(u) ==
  IF protect(u) # 200 THEN protect(u)
  ELSE IF accounts[u].role # "admin" THEN 403
  ELSE 200

\* a request of user u to a protected route (getMe), or to an admin route
\* when admin is set, as far as the middleware: the answer of the middleware,
\* or 200 for a request handed on to its handler
ProtectedRequest(u, admin) ==
  /\ resp' = Resp("protect", IF admin THEN restrictTo(u) ELSE protect(u), 0, u,
                  IF admin THEN "admin" ELSE "any")
  /\ UNCHANGED <<reports, users, store, nextId, req, upl, severity0, accounts>>

----------------------------------------------------------------------------
(* updateUserStatus, updateUserRole *)

\* the isActive values of a request body: the two booleans, and a string
IsActiveInputs == {"true", "false", "yes"}
RoleInputs == {"user", "admin", "root"}

\* mutant: updateUserStatus without the self check
UpdateUserStatusFindAny(c, a, u, isActive) ==
  /\ req[c].pc = "idle" /\ a \in users
  /\ IF isActive \notin {"true", "false"}
     THEN /\ req' = req
          /\ resp' = Resp("updateUserStatus", 400, u, a, isActive)
     ELSE IF u \notin users
     THEN /\ req' = req
          /\ resp' = Resp("updateUserStatus", 404, u, a, isActive)
     ELSE /\ req' = [req EXCEPT ![c] = Request("us_save", "updateUserStatus", u, a,
                                               isActive, "", NoDoc)]
          /\ resp' = resp
  /\ UNCHANGED <<reports, users, store, nextId, upl, severity0, accounts>>

\* the typeof check, User.findById and the self check of updateUserStatus
UpdateUserStatusFind(c, a, u, isActive) ==
  /\ req[c].pc = "idle" /\ a \in users
  /\ IF isActive \notin {"true", "false"}
     THEN /\ req' = req
          /\ resp' = Resp("updateUserStatus", 400, u, a, isActive)
     ELSE IF u \notin users
     THEN /\ req' = req
          /\ resp' = Resp("updateUserStatus", 404, u, a, isActive)
     ELSE IF u = a
     THEN /\ req' = req
          /\ resp' = Resp("updateUserStatus", 400, u, a, isActive)
     ELSE /\ req' = [req EXCEPT ![c] = Request("us_save", "updateUserStatus", u, a,
                                               isActive, "", NoDoc)]
          /\ resp' = resp
  /\ UNCHANGED <<reports, users, store, nextId, upl, severity0, accounts>>

\* user.isActive = isActive; user.save(), which fails when the document is gone
UpdateUserStatusSave(c) ==
  /\ req[c].pc = "us_save"
  /\ LET u == req[c].rid
     IN IF u \in users
        THEN /\ accounts' = [accounts EXCEPT ![u].isActive = (req[c].arg = "true")]
             /\ resp' = Resp("updateUserStatus", 200, u, req[c].uid, req[c].arg)
        ELSE /\ accounts' = accounts
             /\ resp' = Resp("updateUserStatus", 500, u, req[c].uid, req[c].arg)
  /\ req' = [req EXCEPT ![c] = IdleReq]
  /\ UNCHANGED <<reports, users, store, nextId, upl, severity0>>

\* the role check, User.findById and the self check of updateUserRole
UpdateUserRoleFind(c, a, u, role) ==
  /\ req[c].pc = "idle" /\ a \in users
  /\ IF role \notin {"user", "admin"}
     THEN /\ req' = req
          /\ resp' = Resp("updateUserRole", 400, u, a, role)
     ELSE IF u \notin users
     THEN /\ req' = req
          /\ resp' = Resp("updateUserRole", 404, u, a, role)
     ELSE IF u = a
     THEN /\ req' = req
          /\ resp' = Resp("updateUserRole", 400, u, a, role)
     ELSE /\ req' = [req EXCEPT ![c] = Request("ur_save", "updateUserRole", u, a,
                                               role, "", NoDoc)]
          /\ resp' = resp
  /\ UNCHANGED <<reports, users, store, nextId, upl, severity0, accounts>>

\* user.role = role; user.save()
UpdateUserRoleSave(c) ==
  /\ req[c].pc = "ur_save"
  /\ LET u == req[c].rid
     IN IF u \in users
        THEN /\ accounts' = [accounts EXCEPT ![u].role = req[c].arg]
             /\ resp' = Resp("updateUserRole", 200, u, req[c].uid, req[c].arg)
        ELSE /\ accounts' = accounts
             /\ resp' = Resp("updateUserRole", 500, u, req[c].uid, req[c].arg)
  /\ req' = [req EXCEPT ![c] = IdleReq]
  /\ UNCHANGED <<reports, users, store, nextId, upl, severity0>>

----------------------------------------------------------------------------
(* register, VerifyOTP, VerifyOTPByURL, resendOTP; the clock is in minutes *)

OtpExpiryMinutes == 10
OtpLockMinutes == 15
OtpWindowMinutes == 60
OtpMaxAttempts == 5
OtpMaxRequests == 3

\* the codes generateOTP may draw; bcrypt.compare is equality of the codes
OtpValues == {1, 2}

\* checkOTPAttempts: the entry of the email after the window test, whether the
\* request is answered 429, and the map after a request that is let through
AttemptsEntry(u) ==
  LET e == IF otpAttemptStore[u].known THEN otpAttemptStore[u]
           ELSE [count |-> 0, resetAt |-> now + OtpWindowMinutes, known |-> TRUE]
  IN IF now > e.resetAt
     THEN [count |-> 0, resetAt |-> now + OtpWindowMinutes, known |-> TRUE]
     ELSE e

AttemptsExceeded(u) == AttemptsEntry(u).count >= OtpMaxRequests

AttemptsCounted(u) ==
  [otpAttemptStore EXCEPT ![u] = [AttemptsEntry(u) EXCEPT !.count = @ + 1]]

OtpResp(op, code, u, input, error) ==
  [Resp(op, code, 0, u, input) EXCEPT !.error = error]

\* POST /register of the email of user u: checkOTPAttempts, then register.
\* User.create stores the hashed OTP, its expiry, otpRequestCount 1 and the
\* end of the request window; when the mail cannot be sent the user is deleted
Register(u, otp, mailOk) ==
  IF AttemptsExceeded(u)
  THEN /\ resp' = OtpResp("register", 429, u, "", "middleware")
       /\ UNCHANGED <<users, accounts, otpAttemptStore>>
  ELSE /\ otpAttemptStore' = AttemptsCounted(u)
       /\ IF u \in users
          THEN /\ resp' = OtpResp("register", 400, u, "", "exists")
               /\ UNCHANGED <<users, accounts>>
          ELSE IF ~mailOk
          THEN /\ resp' = OtpResp("register", 500, u, "", "mail")
               /\ UNCHANGED <<users, accounts>>
          ELSE /\ users' = users \cup {u}
               /\ accounts' = [accounts EXCEPT ![u] =
                    [Account("user") EXCEPT
                       !.isVerified = FALSE, !.hasOtp = TRUE, !.otp = otp,
                       !.otpExpires = now + OtpExpiryMinutes,
                       !.otpRequestCount = 1,
                       !.otpRequestResetAt = now + OtpWindowMinutes]]
               /\ resp' = OtpResp("register", 201, u, "", "none")

\* isOTPExpired
isOTPExpired(expiryDate) == expiryDate = 0 \/ now > expiryDate

\* mutant: verification that does not look at otpLockedUntil
VerifyUnlocked(op, u, input) ==
  LET user == accounts[u]
      attempts == user.otpAttempts + 1
  IN /\ otpAttemptStore' = otpAttemptStore /\ users' = users
     /\ IF u \notin users
        THEN /\ resp' = OtpResp(op, 404, u, "", "none") /\ accounts' = accounts
        ELSE IF user.isVerified
        THEN /\ resp' = OtpResp(op, 400, u, "", "verified") /\ accounts' = accounts
        ELSE IF ~user.hasOtp
        THEN /\ resp' = OtpResp(op, 400, u, "", "no otp") /\ accounts' = accounts
        ELSE IF isOTPExpired(user.otpExpires)
        THEN /\ resp' = OtpResp(op, 400, u, "", "expired") /\ accounts' = accounts
        ELSE IF input # user.otp
        THEN IF attempts >= OtpMaxAttempts
             THEN /\ accounts' = [accounts EXCEPT
                                    ![u].otpLockedUntil = now + OtpLockMinutes,
                                    ![u].otpAttempts = 0]
                  /\ resp' = OtpResp(op, 429, u, "wrong", "lock")
             ELSE /\ accounts' = [accounts EXCEPT ![u].otpAttempts = attempts]
                  /\ resp' = OtpResp(op, 400, u, "wrong", "invalid")
        ELSE /\ accounts' = [accounts EXCEPT
                               ![u].isVerified = TRUE, ![u].hasOtp = FALSE,
                               ![u].otp = 0, ![u].otpExpires = 0,
                               ![u].otpAttempts = 0, ![u].otpLockedUntil = 0]
             /\ resp' = OtpResp(op, IF op = "VerifyOTP" THEN 200 ELSE 302, u,
                                "correct", "none")

\* VerifyOTP and VerifyOTPByURL, which differ in where the email and the OTP
\* come from and in the status of the success answer: the lock test, the
\* expiry test, the comparison, the attempt counter and the lock
Verify(op, u, input) ==
  LET user == accounts[u]
      attempts == user.otpAttempts + 1
  IN /\ otpAttemptStore' = otpAttemptStore /\ users' = users
     /\ IF u \notin users
        THEN /\ resp' = OtpResp(op, 404, u, "", "none") /\ accounts' = accounts
        ELSE IF user.isVerified
        THEN /\ resp' = OtpResp(op, 400, u, "", "verified") /\ accounts' = accounts
        ELSE IF user.otpLockedUntil # 0 /\ now < user.otpLockedUntil
        THEN /\ resp' = OtpResp(op, 429, u, "", "locked") /\ accounts' = accounts
        ELSE IF ~user.hasOtp
        THEN /\ resp' = OtpResp(op, 400, u, "", "no otp") /\ accounts' = accounts
        ELSE IF isOTPExpired(user.otpExpires)
        THEN /\ resp' = OtpResp(op, 400, u, "", "expired") /\ accounts' = accounts
        ELSE IF input # user.otp
        THEN IF attempts >= OtpMaxAttempts
             THEN /\ accounts' = [accounts EXCEPT
                                    ![u].otpLockedUntil = now + OtpLockMinutes,
                                    ![u].otpAttempts = 0]
                  /\ resp' = OtpResp(op, 429, u, "wrong", "lock")
             ELSE /\ accounts' = [accounts EXCEPT ![u].otpAttempts = attempts]
                  /\ resp' = OtpResp(op, 400, u, "wrong", "invalid")
        ELSE /\ accounts' = [accounts EXCEPT
                               ![u].isVerified = TRUE, ![u].hasOtp = FALSE,
                               ![u].otp = 0, ![u].otpExpires = 0,
                               ![u].otpAttempts = 0, ![u].otpLockedUntil = 0]
             /\ resp' = OtpResp(op, IF op = "VerifyOTP" THEN 200 ELSE 302, u,
                                "correct", "none")

\* mutant: resendOTP without the request limit
ResendUnlimited(u, otp, mailOk) ==
  LET user == accounts[u]
      inWindow == user.otpRequestResetAt # 0 /\ now < user.otpRequestResetAt
      count == IF inWindow THEN user.otpRequestCount ELSE 0
      resetAt == IF inWindow THEN user.otpRequestResetAt ELSE now + OtpWindowMinutes
  IN /\ users' = users /\ otpAttemptStore' = otpAttemptStore
     /\ IF u \notin users
        THEN /\ resp' = OtpResp("resendOTP", 404, u, "", "none")
             /\ accounts' = accounts
        ELSE IF user.isVerified
        THEN /\ resp' = OtpResp("resendOTP", 400, u, "", "verified")
             /\ accounts' = accounts
        ELSE /\ accounts' = [accounts EXCEPT
                  ![u].hasOtp = TRUE, ![u].otp = otp,
                  ![u].otpExpires = now + OtpExpiryMinutes,
                  ![u].otpAttempts = 0, ![u].otpLockedUntil = 0,
                  ![u].otpRequestCount = count + 1,
                  ![u].otpRequestResetAt = resetAt]
             /\ resp' = OtpResp("resendOTP", IF mailOk THEN 200 ELSE 500, u, "",
                                IF mailOk THEN "none" ELSE "mail")

\* POST /resend-otp: checkOTPAttempts, then resendOTP: the request limit of
\* the account, the new OTP, the reset of the attempt counter and of the lock,
\* and the mail
Resend(u, otp, mailOk) ==
  LET user == accounts[u]
      inWindow == user.otpRequestResetAt # 0 /\ now < user.otpRequestResetAt
      count == IF inWindow THEN user.otpRequestCount ELSE 0
      resetAt == IF inWindow THEN user.otpRequestResetAt ELSE now + OtpWindowMinutes
  IN /\ users' = users
     /\ IF AttemptsExceeded(u)
        THEN /\ resp' = OtpResp("resendOTP", 429, u, "", "middleware")
             /\ UNCHANGED <<accounts, otpAttemptStore>>
        ELSE /\ otpAttemptStore' = AttemptsCounted(u)
             /\ IF u \notin users
                THEN /\ resp' = OtpResp("resendOTP", 404, u, "", "none")
                     /\ accounts' = accounts
                ELSE IF user.isVerified
                THEN /\ resp' = OtpResp("resendOTP", 400, u, "", "verified")
                     /\ accounts' = accounts
                ELSE IF inWindow /\ user.otpRequestCount >= OtpMaxRequests
                THEN /\ resp' = OtpResp("resendOTP", 429, u, "", "limit")
                     /\ accounts' = accounts
                ELSE /\ accounts' = [accounts EXCEPT
                          ![u].hasOtp = TRUE, ![u].otp = otp,
                          ![u].otpExpires = now + OtpExpiryMinutes,
                          ![u].otpAttempts = 0, ![u].otpLockedUntil = 0,
                          ![u].otpRequestCount = count + 1,
                          ![u].otpRequestResetAt = resetAt]
                     /\ resp' = OtpResp("resendOTP", IF mailOk THEN 200 ELSE 500, u, "",
                                        IF mailOk THEN "none" ELSE "mail")

----------------------------------------------------------------------------
(* Query strings, parseInt and parseFloat *)

\* A query parameter is the sequence of its characters; <<>> stands for a
\* parameter that is absent or empty, which JavaScript treats alike (falsy).
\* Numbers with a fraction are kept in tenths: the texts of the model carry at
\* most one digit after the point.
DigitVal ==
  [ch \in {"0", "1", "2", "3", "4", "5", "6", "7", "8", "9"} |->
     CASE ch = "0" -> 0 [] ch = "1" -> 1 [] ch = "2" -> 2 [] ch = "3" -> 3
       [] ch = "4" -> 4 [] ch = "5" -> 5 [] ch = "6" -> 6 [] ch = "7" -> 7
       [] ch = "8" -> 8 [] OTHER -> 9]

IsDigit(ch) == ch \in DOMAIN DigitVal

\* the number of digits of text from position i on, up to the first other
\* character
DigitRun(text, i) ==
  CHOOSE n \in 0 .. Len(text) :
    /\ i + n - 1 <= Len(text)
    /\ \A k \in i .. i + n - 1 : IsDigit(text[k])
    /\ (i + n > Len(text) \/ ~IsDigit(text[i + n]))

\* the value of the n digits of text from position i on
RECURSIVE DigitsValue(_, _, _)
DigitsValue(text, i, n) ==
  IF n = 0 THEN 0
  ELSE 10 * DigitsValue(text, i, n - 1) + DigitVal[text[i + n - 1]]

NaN == [nan |-> TRUE, v |-> 0]

\* parseInt: an optional sign and the leading digits; whatever follows them is
\* dropped, and a text without leading digits gives NaN
parseInt(text) ==
  LET neg == Len(text) > 0 /\ text[1] = "-"
      i == IF neg THEN 2 ELSE 1
      n == IF i > Len(text) THEN 0 ELSE DigitRun(text, i)
  IN IF n = 0 THEN NaN
     ELSE [nan |-> FALSE,
           v |-> IF neg THEN 0 - DigitsValue(text, i, n) ELSE DigitsValue(text, i, n)]

\* parseFloat, in tenths: an optional sign, the leading digits, and a point
\* with the digit after it; a text with neither a leading digit nor a point
\* followed by a digit gives NaN
parseFloat(text) ==
  LET neg == Len(text) > 0 /\ text[1] = "-"
      i == IF neg THEN 2 ELSE 1
      n == IF i > Len(text) THEN 0 ELSE DigitRun(text, i)
      j == i + n
      frac == j + 1 <= Len(text) /\ text[j] = "." /\ IsDigit(text[j + 1])
      tenths == 10 * DigitsValue(text, i, n) + (IF frac THEN DigitVal[text[j + 1]] ELSE 0)
  IN IF n = 0 /\ ~frac THEN NaN
     ELSE [nan |-> FALSE, v |-> IF neg THEN 0 - tenths ELSE tenths]

----------------------------------------------------------------------------
(* getNearbyReports *)

\* the query of a nearby request: lat, lng, radius and limit as given
NearbyQuery(lat, lng, radius, limit) ==
  [lat |-> lat, lng |-> lng, radius |-> radius, limit |-> limit]

\* one field of validateNearbyQuery: [ok, v] where v is the value put in data
LatField(text) ==
  LET lat == parseFloat(text)
  IN IF text = <<>> THEN [ok |-> FALSE, v |-> 0, error |-> "Latitude (lat) is required"]
     ELSE IF lat.nan THEN [ok |-> FALSE, v |-> 0, error |-> "Latitude must be a number"]
     ELSE IF lat.v < -900 \/ lat.v > 900
     THEN [ok |-> FALSE, v |-> 0, error |-> "Latitude must be between -90 and 90"]
     ELSE [ok |-> TRUE, v |-> lat.v, error |-> ""]

LngField(text) ==
  LET lng == parseFloat(text)
  IN IF text = <<>> THEN [ok |-> FALSE, v |-> 0, error |-> "Longitude (lng) is required"]
     ELSE IF lng.nan THEN [ok |-> FALSE, v |-> 0, error |-> "Longitude must be a number"]
     ELSE IF lng.v < -1800 \/ lng.v > 1800
     THEN [ok |-> FALSE, v |-> 0, error |-> "Longitude must be between -180 and 180"]
     ELSE [ok |-> TRUE, v |-> lng.v, error |-> ""]

RadiusField(text) ==
  LET radius == parseInt(text)
  IN IF text = <<>> THEN [ok |-> TRUE, v |-> 5000, error |-> ""]
     ELSE IF radius.nan THEN [ok |-> FALSE, v |-> 0, error |-> "Radius must be a number"]
     ELSE IF radius.v < 100 \/ radius.v > 50000
     THEN [ok |-> FALSE, v |-> 0, error |-> "Radius must be between 100 and 50000 meters"]
     ELSE [ok |-> TRUE, v |-> radius.v, error |-> ""]

LimitField(text) ==
  LET limit == parseInt(text)
  IN IF text = <<>> THEN [ok |-> TRUE, v |-> 100, error |-> ""]
     ELSE IF limit.nan THEN [ok |-> FALSE, v |-> 0, error |-> "Limit must be a number"]
     ELSE IF limit.v < 1 \/ limit.v > 100
     THEN [ok |-> FALSE, v |-> 0, error |-> "Limit must be between 1 and 100"]
     ELSE [ok |-> TRUE, v |-> limit.v, error |-> ""]

\* validateNearbyQuery: the errors in the order they are pushed, and data with
\* lat and lng in tenths of a degree, radius in metres
validateNearbyQuery(query) ==
  LET fields == <<LatField(query.lat), LngField(query.lng),
                  RadiusField(query.radius), LimitField(query.limit)>>
  IN [valid |-> \A i \in 1 .. 4 : fields[i].ok,
      errors |-> SelectSeq([i \in 1 .. 4 |-> fields[i].error], LAMBDA e : e # ""),
      data |-> [lat |-> fields[1].v, lng |-> fields[2].v,
                radius |-> fields[3].v, limit |-> fields[4].v]]

Abs(x) == IF x < 0 THEN 0 - x ELSE x

\* metres of a tenth of a degree along a great circle of the 2dsphere index
MetresPerTenth == 11132

\* $near distance in metres between two points in tenths of a degree that lie
\* on one meridian or on opposite meridians (over the nearer pole)
Distance(p, q) ==
  CASE (p.lng - q.lng) % 3600 = 0 -> MetresPerTenth * Abs(p.lat - q.lat)
    [] (p.lng - q.lng) % 3600 = 1800 -> MetresPerTenth * (1800 - Abs(p.lat + q.lat))

\* mutant: $maxDistance is not applied
WithinAny(center, radius) == DOMAIN reports

\* the reports $near with $maxDistance selects
Within(center, radius) ==
  {r \in DOMAIN reports : Distance(reports[r].location, center) <= radius}

\* the results find(...).limit(limit) can return: nearest first, reports at the
\* same distance in either order, cut after limit reports
NearResults(center, radius, limit) ==
  LET inside == Within(center, radius)
      n == IF Cardinality(inside) < limit THEN Cardinality(inside) ELSE limit
      dist(r) == Distance(reports[r].location, center)
  IN {s \in [1 .. n -> inside] :
        /\ \A i, j \in 1 .. n : i < j => s[i] # s[j] /\ dist(s[i]) <= dist(s[j])
        /\ \A r \in inside : (\A i \in 1 .. n : s[i] # r) =>
             \A i \in 1 .. n : dist(s[i]) <= dist(r)}

\* getNearbyReports without status and category filters: 400 before the query
\* when validation fails, else the $near query and 200
GetNearbyReports(query) ==
  LET validation == validateNearbyQuery(query)
      data == validation.data
  IN /\ IF ~validation.valid
        THEN view' = [NoView EXCEPT !.op = "nearby", !.code = 400, !.given = query]
        ELSE \E items \in NearResults(data, data.radius, data.limit) :
               view' = [NoView EXCEPT !.op = "nearby", !.code = 200, !.given = query,
                          !.queried = TRUE, !.query = data, !.items = items]
     /\ UNCHANGED <<reports, users, store, nextId, req, upl, resp, severity0,
                    accounts, now, otpAttemptStore>>

----------------------------------------------------------------------------
(* getMyReports and getAllReports *)

\* mutant: the page count rounded down
CeilDown(total, limit) == total \div limit

\* Math.ceil(total / limit) for limit > 0
Ceil(total, limit) == (total + limit - 1) \div limit

\* the ids a listing matches, newest first (sort by createdAt, descending);
\* user is NULL for getAllReports, which has no owner filter
RECURSIVE Matching(_, _)
Matching(user, n) ==
  IF n = 0 THEN <<>>
  ELSE IF n \in DOMAIN reports /\ (user = NULL \/ reports[n].user = user)
  THEN <<n>> \o Matching(user, n - 1)
  ELSE Matching(user, n - 1)

\* find(query).sort(...).skip(skip).limit(limit), countDocuments(query) and the
\* pagination block; page and limit default to 1 and 20 when absent, and the
\* requests modelled send numbers, the page size not negative.  A negative skip
\* is refused by the database and answered 500; limit 0 means no limit, and
\* the page count Infinity or NaN is sent as null (-1 here)
Listing(op, user, page, limit) ==
  LET p == IF page = <<>> THEN 1 ELSE parseInt(page).v
      l == IF limit = <<>> THEN 20 ELSE parseInt(limit).v
      skip == (p - 1) * l
      all == Matching(user, nextId - 1)
      total == Len(all)
      last == IF l = 0 \/ skip + l > total THEN total ELSE skip + l
      given == [page |-> page, limit |-> limit, user |-> user]
  IN /\ page = <<>> \/ ~parseInt(page).nan
     /\ limit = <<>> \/ ~parseInt(limit).nan
     /\ l >= 0
     /\ IF skip < 0
        THEN view' = [NoView EXCEPT !.op = op, !.code = 500, !.given = given]
        ELSE view' = [NoView EXCEPT !.op = op, !.code = 200, !.given = given,
                        !.queried = TRUE,
                        !.query = [page |-> p, limit |-> l, skip |-> skip],
                        !.items = SubSeq(all, skip + 1, last),
                        !.total = total,
                        !.pages = IF l = 0 THEN -1 ELSE Ceil(total, l)]
     /\ UNCHANGED <<reports, users, store, nextId, req, upl, resp, severity0,
                    accounts, now, otpAttemptStore>>

\* getMyReports of user u
GetMyReports(u, page, limit) == u \in users /\ Listing("myReports", u, page, limit)

\* getAllReports of the administrator, without filters
GetAllReports(page, limit) == Listing("allReports", NULL, page, limit)

----------------------------------------------------------------------------
(* The request handlers running interleaved against one database *)

\* a new request is admitted / a request in flight takes its next step
Admit == ops < MaxOps /\ ops' = ops + 1 /\ toggles' = toggles /\ UNCHANGED others
Step == ops' = ops /\ toggles' = toggles /\ UNCHANGED others

\* create inputs of the lifecycle specification: two severities; one image, or
\* an image and a video
LifecycleSeverities == {"low", "critical"}
LifecycleFiles == {FilesOf(1, 0, 0), FilesOf(1, 1, 0)}

Next ==
  \/ Admit /\ \E c \in Clients, u \in Users : CreateNoFile(c, u, "low")
  \/ Admit /\ nextId <= MaxReports
       /\ \E c \in Clients, u \in Users, sev \in LifecycleSeverities, f \in LifecycleFiles :
            CreateStart(c, u, sev, f)
  \/ Step /\ \E c \in Clients : CreateUploadOk(c)
  \/ Step /\ \E c \in Clients : CreateUploadFail(c)
  \/ Step /\ \E c \in Clients, o \in DestroyOutcomes : CreateRollback(c, o)
  \/ Step /\ \E c \in Clients, ok \in BOOLEAN : CreateSave(c, ok)
  \/ Admit /\ \E c \in Clients, u \in Users, r \in ReportIds : UpvoteFind(c, u, r)
  \/ Step /\ \E c \in Clients : UpvoteSave(c)
  \/ Admit /\ \E c \in Clients, r \in ReportIds, st \in StatusInputs, n \in NotesInputs :
       StatusFind(c, AdminId, r, st, n)
  \/ Step /\ \E c \in Clients : StatusSave(c)
  \/ Admit /\ \E c \in Clients, r \in ReportIds, rs \in ReasonInputs :
       RejectFind(c, AdminId, r, rs)
  \/ Step /\ \E c \in Clients : RejectSave(c)
  \/ Admit /\ \E c \in Clients, u \in Users : DeleteUserFind(c, AdminId, u)
  \/ Step /\ \E c \in Clients : DeleteUserDelete(c)
  \/ Step /\ \E c \in Clients : DeleteUserUpdate(c)

Spec == Init /\ [][Next]_vars

----------------------------------------------------------------------------
(* createReport alone: batches of up to MaxBatch files, two requests at a time *)

AdmitCreate ==
  ops < MaxCreates /\ ops' = ops + 1 /\ toggles' = toggles /\ UNCHANGED others

NextCreate ==
  \/ AdmitCreate /\ \E c \in Clients, u \in Users : CreateNoFile(c, u, "low")
  \/ AdmitCreate
       /\ \E c \in Clients, sev \in LifecycleSeverities, f \in FilesUpTo(MaxBatch) :
            CreateStart(c, AdminId, sev, f)
  \/ Step /\ \E c \in Clients : CreateUploadOk(c)
  \/ Step /\ \E c \in Clients : CreateUploadFail(c)
  \/ Step /\ \E c \in Clients, o \in DestroyOutcomes : CreateRollback(c, o)
  \/ Step /\ \E c \in Clients, ok \in BOOLEAN : CreateSave(c, ok)

SpecCreate == Init /\ [][NextCreate]_vars

----------------------------------------------------------------------------
(* createReport requests of one caller, who may close the connection between *)
(* two uploads                                                               *)

NextAbort ==
  \/ AdmitCreate /\ \E sev \in LifecycleSeverities, f \in FilesUpTo(MaxBatch) :
       CreateStart(1, AdminId, sev, f)
  \/ Step /\ CreateUploadOk(1)
  \/ Step /\ CreateUploadFail(1)
  \/ Step /\ CreateAbort(1)
  \/ Step /\ \E o \in DestroyOutcomes : CreateRollback(1, o)
  \/ Step /\ \E ok \in BOOLEAN : CreateSave(1, ok)

SpecAbort == Init /\ [][NextAbort]_vars

----------------------------------------------------------------------------
(* Upvote toggles one after the other on one report, by up to MaxVoters users. *)
(* User ids enter the handler only through equality tests, so the voters act   *)
(* in a fixed order: the next new voter upvotes, or the latest one withdraws.  *)

InitVote ==
  /\ \E sev \in SeverityInputs :
       /\ reports = (1 :> CreateDoc(NewReport(AdminId, sev),
                                    <<[type |-> "image", publicId |-> PublicId(1, 1)]>>,
                                    AdminId))
       /\ severity0 = (1 :> sev)
  /\ users = Voters
  /\ store = {PublicId(1, 1)}
  /\ nextId = 2
  /\ req = [c \in Clients |-> IdleReq]
  /\ upl = [c \in Clients |-> IdleUpl]
  /\ resp = NoResp
  /\ ops = 0
  /\ toggles = NoToggles
  /\ InitOthers

NextVoter(doc, u) ==
  \/ u = Len(doc.upvotedBy) + 1
  \/ u = Len(doc.upvotedBy)

ToggleRecord(doc, u) ==
  [uid |-> u, upvotes |-> doc.upvotes, severity |-> doc.severity,
   hasUpvoted |-> ~HasUpvoted(doc, u)]

Logged(t, doc, u) ==
  [log |-> IF Len(t.log) = 2 THEN <<t.log[2], ToggleRecord(doc, u)>>
           ELSE Append(t.log, ToggleRecord(doc, u)),
   removed |-> t.removed \/ HasUpvoted(doc, u)]

VoteFind(u) ==
  /\ ops < MaxToggles
  /\ NextVoter(reports[1], u)
  /\ UpvoteFind(1, u, 1)
  /\ ops' = ops + 1
  /\ toggles' = toggles
  /\ UNCHANGED others

VoteSave ==
  /\ UpvoteSave(1)
  /\ ops' = ops
  /\ toggles' = Logged(toggles, req[1].doc, req[1].uid)
  /\ UNCHANGED others

NextVote ==
  \/ \E u \in Voters : VoteFind(u)
  \/ VoteSave

SpecVote == InitVote /\ [][NextVote]_vars

----------------------------------------------------------------------------
(* Upvote toggles interleaved with the administrator's status changes and    *)
(* rejections, on one report that is one upvote short of its first severity  *)
(* upgrade                                                                   *)

\* the upvote count from which calculateSeverity lifts low to medium
MediumThreshold == 5

\* the stored document after the users 1 .. n have upvoted it in turn
RECURSIVE Upvoted(_, _)
Upvoted(doc, n) ==
  IF n = 0 THEN doc
  ELSE LET d == Upvoted(doc, n - 1) IN UpvoteDb(d, d, n)

InitRace ==
  /\ reports = (1 :> Upvoted(CreateDoc(NewReport(AdminId, "low"),
                                       <<[type |-> "image", publicId |-> PublicId(1, 1)]>>,
                                       AdminId),
                             MediumThreshold - 1))
  /\ severity0 = (1 :> "low")
  /\ users = Voters
  /\ store = {PublicId(1, 1)}
  /\ nextId = 2
  /\ req = [c \in Clients |-> IdleReq]
  /\ upl = [c \in Clients |-> IdleUpl]
  /\ resp = NoResp
  /\ ops = 0
  /\ toggles = NoToggles
  /\ InitOthers

NextRace ==
  \/ Admit /\ \E c \in Clients, u \in {MediumThreshold - 1, MediumThreshold} :
       UpvoteFind(c, u, 1)
  \/ Step /\ \E c \in Clients : UpvoteSave(c)
  \/ Admit /\ \E c \in Clients, st \in AdminStatusInputs : StatusFind(c, AdminId, 1, st, "")
  \/ Step /\ \E c \in Clients : StatusSave(c)
  \/ Admit /\ \E c \in Clients : RejectFind(c, AdminId, 1, "duplicate report")
  \/ Step /\ \E c \in Clients : RejectSave(c)

SpecRace == InitRace /\ [][NextRace]_vars

----------------------------------------------------------------------------
(* The administrator's calls on one report, one after the other: rejections  *)
(* with reasons at the edges of the accepted lengths, and status changes.    *)

AdmitAdmin ==
  ops < MaxAdminOps /\ ops' = ops + 1 /\ toggles' = toggles /\ UNCHANGED others

NextReject ==
  \/ AdmitAdmin /\ \E r \in ReportIds \cup {nextId}, rs \in BoundaryReasons :
       RejectFind(1, AdminId, r, rs)
  \/ Step /\ RejectSave(1)
  \/ AdmitAdmin /\ \E st \in validStatuses, n \in NotesInputs :
       StatusFind(1, AdminId, 1, st, n)
  \/ Step /\ StatusSave(1)

SpecReject == InitVote /\ [][NextReject]_vars

----------------------------------------------------------------------------
(* Listings of up to MaxListed reports, which the registered users created *)
(* in turn, by page                                                          *)

InitListing ==
  /\ \E n \in 0 .. MaxListed :
       LET owner == [r \in 1 .. n |-> ((r - 1) % NUsers) + 1] IN
       /\ reports = [r \in 1 .. n |->
                       CreateDoc(NewReport(owner[r], "low"),
                                 <<[type |-> "image", publicId |-> PublicId(r, 1)]>>,
                                 owner[r])]
       /\ severity0 = [r \in 1 .. n |-> "low"]
       /\ store = {PublicId(r, 1) : r \in 1 .. n}
       /\ nextId = n + 1
  /\ users = Users
  /\ req = [c \in Clients |-> IdleReq]
  /\ upl = [c \in Clients |-> IdleUpl]
  /\ resp = NoResp
  /\ ops = 0
  /\ toggles = NoToggles
  /\ InitOthers

\* page and limit as sent: absent, whole numbers, a number with a fraction
PageInputs == {<<>>, <<"0">>, <<"1">>, <<"2">>, <<"3">>, <<"4">>}
PageSizeInputs == {<<>>, <<"0">>, <<"1">>, <<"2">>, <<"2", ".", "5">>, <<"3">>}

NextListing ==
  /\ \/ \E u \in Users, page \in PageInputs, limit \in PageSizeInputs :
          GetMyReports(u, page, limit)
     \/ \E page \in PageInputs, limit \in PageSizeInputs : GetAllReports(page, limit)
  /\ UNCHANGED <<ops, toggles>>

SpecListing == InitListing /\ [][NextListing]_vars

----------------------------------------------------------------------------
(* User management: the administrators' calls one after the other, each     *)
(* behind protect and restrictTo('admin'), and protected requests of users   *)

\* the calls leave the listings, the clock and the OTP limiter alone
UserStep == UNCHANGED <<ops, toggles, view, now, otpAttemptStore>>

NextUsers ==
  \/ UserStep /\ \E u \in Users, admin \in BOOLEAN :
       req[1].pc = "idle" /\ ProtectedRequest(u, admin)
  \/ UserStep /\ \E a, u \in Users, isActive \in IsActiveInputs :
       restrictTo(a) = 200 /\ UpdateUserStatusFind(1, a, u, isActive)
  \/ UserStep /\ UpdateUserStatusSave(1)
  \/ UserStep /\ \E a, u \in Users, role \in RoleInputs :
       restrictTo(a) = 200 /\ UpdateUserRoleFind(1, a, u, role)
  \/ UserStep /\ UpdateUserRoleSave(1)
  \/ UserStep /\ accounts' = accounts /\ \E a, u \in Users :
       restrictTo(a) = 200 /\ DeleteUserFind(1, a, u)
  \/ UserStep /\ accounts' = accounts /\ DeleteUserDelete(1)
  \/ UserStep /\ accounts' = accounts /\ DeleteUserUpdate(1)

SpecUsers == InitListing /\ [][NextUsers]_vars

----------------------------------------------------------------------------
(* The admin routes, one request after the other: every route runs behind    *)
(* protect and restrictTo('admin'); up to MaxAdminOps requests reach the     *)
(* report handlers                                                           *)

NextAdmin ==
  \/ UserStep /\ \E u \in Users : req[1].pc = "idle" /\ ProtectedRequest(u, TRUE)
  \/ UserStep /\ \E a, u \in Users, isActive \in IsActiveInputs :
       restrictTo(a) = 200 /\ UpdateUserStatusFind(1, a, u, isActive)
  \/ UserStep /\ UpdateUserStatusSave(1)
  \/ UserStep /\ \E a, u \in Users, role \in RoleInputs :
       restrictTo(a) = 200 /\ UpdateUserRoleFind(1, a, u, role)
  \/ UserStep /\ UpdateUserRoleSave(1)
  \/ UserStep /\ accounts' = accounts /\ \E a, u \in Users :
       restrictTo(a) = 200 /\ DeleteUserFind(1, a, u)
  \/ UserStep /\ accounts' = accounts /\ DeleteUserDelete(1)
  \/ UserStep /\ accounts' = accounts /\ DeleteUserUpdate(1)
  \/ AdmitAdmin /\ \E a \in Users, r \in ReportIds, st \in AdminStatusInputs :
       restrictTo(a) = 200 /\ StatusFind(1, a, r, st, "")
  \/ Step /\ StatusSave(1)
  \/ AdmitAdmin /\ \E a \in Users, r \in ReportIds :
       restrictTo(a) = 200 /\ RejectFind(1, a, r, "duplicate report")
  \/ Step /\ RejectSave(1)

SpecAdmin == InitListing /\ [][NextAdmin]_vars

----------------------------------------------------------------------------
(* User management with the requests of the clients interleaved: each        *)
(* request passes protect and restrictTo('admin') when it arrives, and its   *)
(* write follows in a later step                                             *)

NextAdmins ==
  \/ UserStep /\ \E c \in Clients, a, u \in Users, isActive \in IsActiveInputs :
       restrictTo(a) = 200 /\ UpdateUserStatusFind(c, a, u, isActive)
  \/ UserStep /\ \E c \in Clients : UpdateUserStatusSave(c)
  \/ UserStep /\ \E c \in Clients, a, u \in Users, role \in RoleInputs :
       restrictTo(a) = 200 /\ UpdateUserRoleFind(c, a, u, role)
  \/ UserStep /\ \E c \in Clients : UpdateUserRoleSave(c)
  \/ UserStep /\ accounts' = accounts /\ \E c \in Clients, a, u \in Users :
       restrictTo(a) = 200 /\ DeleteUserFind(c, a, u)
  \/ UserStep /\ accounts' = accounts /\ \E c \in Clients : DeleteUserDelete(c)
  \/ UserStep /\ accounts' = accounts /\ \E c \in Clients : DeleteUserUpdate(c)

SpecAdmins == InitListing /\ [][NextAdmins]_vars

----------------------------------------------------------------------------
(* Upvotes, status changes and rejections interleaved on up to MaxListed     *)
(* reports                                                                   *)

NextFrame ==
  \/ Admit /\ \E c \in Clients, u \in Users, r \in DOMAIN reports : UpvoteFind(c, u, r)
  \/ Step /\ \E c \in Clients : UpvoteSave(c)
  \/ Admit /\ \E c \in Clients, r \in DOMAIN reports, st \in AdminStatusInputs :
       StatusFind(c, AdminId, r, st, "")
  \/ Step /\ \E c \in Clients : StatusSave(c)
  \/ Admit /\ \E c \in Clients, r \in DOMAIN reports :
       RejectFind(c, AdminId, r, "duplicate report")
  \/ Step /\ \E c \in Clients : RejectSave(c)

SpecFrame == InitListing /\ [][NextFrame]_vars

----------------------------------------------------------------------------
(* Registration and OTP verification of one email, with the clock moving in  *)
(* steps of TickMinutes and the server restarting                            *)

\* the user the email will belong to
Registrant == CHOOSE u \in Users : u # AdminId

InitOtp ==
  /\ reports = <<>>
  /\ users = Users \ {Registrant}
  /\ store = {}
  /\ nextId = 1
  /\ req = [c \in Clients |-> IdleReq]
  /\ upl = [c \in Clients |-> IdleUpl]
  /\ resp = NoResp
  /\ severity0 = <<>>
  /\ ops = 0
  /\ toggles = NoToggles
  /\ InitOthers

\* a request to the auth routes is admitted; here ops counts the requests
\* modulo OpsModulus, which is enough to tell two answers apart
OtpRequest ==
  /\ ops' = (ops + 1) % OpsModulus
  /\ UNCHANGED <<reports, store, nextId, req, upl, severity0, toggles, view, now>>

\* time passes
Tick ==
  /\ now < MaxNow /\ now' = now + TickMinutes
  /\ UNCHANGED <<reports, users, store, nextId, req, upl, resp, severity0, ops,
                 toggles, view, accounts, otpAttemptStore>>

\* the server process restarts: the in-memory otpAttemptStore is empty again
Restart ==
  /\ otpAttemptStore # NoAttempts /\ otpAttemptStore' = NoAttempts
  /\ UNCHANGED <<reports, users, store, nextId, req, upl, resp, severity0, ops,
                 toggles, view, accounts, now>>

NextOtp ==
  \/ OtpRequest /\ \E otp \in OtpValues, mailOk \in BOOLEAN :
       Register(Registrant, otp, mailOk)
  \/ OtpRequest /\ \E op \in {"VerifyOTP", "VerifyOTPByURL"}, input \in OtpValues :
       Verify(op, Registrant, input)
  \/ OtpRequest /\ \E otp \in OtpValues, mailOk \in BOOLEAN :
       Resend(Registrant, otp, mailOk)
  \/ Tick
  \/ Restart

SpecOtp == InitOtp /\ [][NextOtp]_vars

----------------------------------------------------------------------------
(* Requests on one report and on ids that have no report, one after the     *)
(* other: the id of the report, an ObjectId of no report, and a text that is  *)
(* no ObjectId                                                               *)

IdInputs == ReportIds \cup {nextId, MalformedId}

NextMissing ==
  \/ AdmitAdmin /\ \E r \in IdInputs, st \in StatusInputs, n \in NotesInputs :
       StatusFind(1, AdminId, r, st, n)
  \/ Step /\ StatusSave(1)
  \/ AdmitAdmin /\ \E r \in IdInputs, rs \in ReasonInputs : RejectFind(1, AdminId, r, rs)
  \/ Step /\ RejectSave(1)
  \/ AdmitAdmin /\ \E r \in IdInputs, u \in Users : UpvoteFind(1, u, r)
  \/ Step /\ UpvoteSave(1)

SpecMissing == InitVote /\ [][NextMissing]_vars

----------------------------------------------------------------------------
(* Nearby queries against up to MaxPlaced reports on the Greenwich meridian, *)
(* with query texts at the edges of the accepted ranges.                     *)

\* latitudes of the placed reports, in tenths of a degree: 0 m, 44.5 km and
\* 55.7 km from the equator
PlacedLats == {0, 4, 5}

Placed(lat, r) ==
  [CreateDoc(NewReport(AdminId, "low"),
             <<[type |-> "image", publicId |-> PublicId(r, 1)]>>, AdminId)
     EXCEPT !.location = [lat |-> lat, lng |-> 0]]

InitNearby ==
  /\ \E n \in 0 .. MaxPlaced : \E lats \in [1 .. n -> PlacedLats] :
       /\ reports = [r \in 1 .. n |-> Placed(lats[r], r)]
       /\ severity0 = [r \in 1 .. n |-> "low"]
       /\ store = {PublicId(r, 1) : r \in 1 .. n}
       /\ nextId = n + 1
  /\ users = Users
  /\ req = [c \in Clients |-> IdleReq]
  /\ upl = [c \in Clients |-> IdleUpl]
  /\ resp = NoResp
  /\ ops = 0
  /\ toggles = NoToggles
  /\ InitOthers

LatInputs ==
  {<<>>, <<"0">>, <<"0", ".", "4">>, <<"9", "0">>, <<"-", "9", "0">>,
   <<"9", "0", ".", "1">>, <<"-", "9", "0", ".", "1">>, <<"m">>}
LngInputs ==
  {<<>>, <<"0">>, <<"1", "8", "0">>, <<"-", "1", "8", "0">>,
   <<"1", "8", "0", ".", "1">>, <<"-", "1", "8", "1">>, <<"m">>}
RadiusInputs ==
  {<<>>, <<"9", "9">>, <<"1", "0", "0">>, <<"5", "0", "0", "0", "0">>,
   <<"5", "0", "0", "0", "1">>, <<"5", "0", "0", "0", "0", ".", "9">>,
   <<"9", "9", ".", "9">>, <<"m">>}
LimitInputs ==
  {<<>>, <<"0">>, <<"1">>, <<"2">>, <<"1", "0", "0">>, <<"1", "0", "1">>,
   <<"1", "0", "0", ".", "5">>}

\* every text of lat and of lng with the other parameters valid, and every
\* pair of radius and limit at two centres
NearbyQueries ==
  {NearbyQuery(lat, <<"0">>, <<>>, <<>>) : lat \in LatInputs}
    \cup {NearbyQuery(<<"0">>, lng, <<>>, <<>>) : lng \in LngInputs}
    \cup {NearbyQuery(lat, lng, radius, limit) :
             lat \in {<<"0">>, <<"0", ".", "4">>}, lng \in {<<"0">>},
             radius \in RadiusInputs, limit \in LimitInputs}

NextNearby ==
  /\ \E query \in NearbyQueries : GetNearbyReports(query)
  /\ UNCHANGED <<ops, toggles>>

SpecNearby == InitNearby /\ [][NextNearby]_vars

----------------------------------------------------------------------------
(* Properties *)

\* C1: when the upload of file k of a createReport call fails, a delete is
\* issued for exactly the files 1..k-1 uploaded by this call, for no other
\* file, and the call persists no report.
TheoremC1 ==
  (resp.op = "create" /\ resp.failedAt > 0) =>
    /\ resp.code = 500
    /\ resp.issued = [i \in 1 .. (resp.failedAt - 1) |-> PublicId(resp.rid, i)]
    /\ ~Exists(resp.rid)

\* the third file of a batch failed while another request's file is stored
WitnessC1 ==
  /\ resp.op = "create" /\ resp.failedAt = 3 /\ Len(resp.issued) = 2
  /\ \E id \in store : id[1] # resp.rid

\* C2: two upvotes by different users that overlap on one report are both
\* reflected: when a request saves its upvote after another user's upvote was
\* saved since it loaded the report, upvotedBy holds both users and upvotes is
\* 2 above the value both started from.
ClaimC2 ==
  [][\A c \in Clients :
       (/\ req[c].pc = "up_save" /\ req'[c].pc = "idle" /\ resp'.code = 200
        /\ ~HasUpvoted(req[c].doc, req[c].uid)
        /\ \E w \in Users \ {req[c].uid} :
             reports[req[c].rid].upvotedBy = Append(req[c].doc.upvotedBy, w))
       => (/\ HasUpvoted(reports'[req[c].rid], req[c].uid)
           /\ \A w \in Users : HasUpvoted(reports[req[c].rid], w)
                                 => HasUpvoted(reports'[req[c].rid], w)
           /\ reports'[req[c].rid].upvotes = req[c].doc.upvotes + 2)]_vars

\* C3: two consecutive toggles by the same user restore upvotes and severity,
\* and the second hasUpvoted is the negation of the first.
ClaimC3 ==
  (/\ Len(toggles.log) = 2 /\ toggles.log[1].uid = toggles.log[2].uid
   /\ req[1].pc = "idle") =>
    /\ reports[1].upvotes = toggles.log[1].upvotes
    /\ reports[1].severity = toggles.log[1].severity
    /\ toggles.log[2].hasUpvoted = ~toggles.log[1].hasUpvoted

\* the severity policy as documented: a function of the creation severity and
\* the upvote count
SeverityPolicy(created, n) ==
  CASE n >= 20 -> "critical"
    [] n >= 10 /\ n < 20 -> "high"
    [] n >= 5 /\ n < 10 /\ created = "low" -> "medium"
    [] OTHER -> created

\* C4: the stored severity is the policy applied to the creation severity and
\* the current upvote count, whatever the history of toggles.
ClaimC4 ==
  \A r \in DOMAIN reports :
    reports[r].severity = SeverityPolicy(severity0[r], reports[r].upvotes)

\* history of a report created low and only upvoted, n upvotes in
ClimbHistory(r, n) ==
  <<Entry("reported", "created", "", 0, reports[r].user)>> \o
  (IF n >= 5 THEN <<Entry("reported", "severity", "medium", 5, NULL)>> ELSE <<>>) \o
  (IF n >= 10 THEN <<Entry("reported", "severity", "high", 10, NULL)>> ELSE <<>>) \o
  (IF n >= 20 THEN <<Entry("reported", "severity", "critical", 20, NULL)>> ELSE <<>>)

\* C5: a report created low and upvoted one user at a time is low at 0..4
\* upvotes, medium at 5..9, high at 10..19, critical from 20 on, and its history
\* holds one entry per threshold crossed and no other entry of a toggle.
TheoremC5 ==
  \A r \in DOMAIN reports :
    (severity0[r] = "low" /\ ~toggles.removed) =>
      /\ reports[r].severity = SeverityPolicy("low", reports[r].upvotes)
      /\ reports[r].history = ClimbHistory(r, reports[r].upvotes)

WitnessC5 ==
  /\ severity0[1] = "low" /\ ~toggles.removed
  /\ reports[1].upvotes = 20 /\ reports[1].severity = "critical"

\* C6: no toggle lowers the stored severity on the scale low < medium < high <
\* critical.
ClaimC6 ==
  [][\A r \in DOMAIN reports :
       SevRank(reports'[r].severity) >= SevRank(reports[r].severity)]_vars

\* a step that completes a createReport, updateReportStatus or rejectReport
\* request of client c with success
Succeeds(c, pc) ==
  req[c].pc = pc /\ req'[c].pc = "idle" /\ resp'.code \in {200, 201}

HistoryLen(r) == IF Exists(r) THEN Len(reports[r].history) ELSE 0

\* C7: every successful creation and every successful status change, with or
\* without notes, and every rejection appends exactly one history entry.
ClaimC7 ==
  [][\A c \in Clients :
       (Succeeds(c, "cr_save") \/ Succeeds(c, "st_save") \/ Succeeds(c, "rj_save"))
       => Len(reports'[req[c].rid].history) = HistoryLen(req[c].rid) + 1]_vars

\* C8: history is append-only: across every step of every operation, also
\* interleaved, the stored history before is a prefix of the history after.
TheoremC8 ==
  [][\A r \in DOMAIN reports :
       r \in DOMAIN reports' /\ IsPrefix(reports[r].history, reports'[r].history)]_vars

\* two overlapping status changes to the same status were both saved: one after
\* the other, the second would have been refused as already in that status
WitnessC8 ==
  \E r \in DOMAIN reports :
    \E i \in 1 .. (Len(reports[r].history) - 1) :
      /\ reports[r].history[i].kind = "status"
      /\ reports[r].history[i + 1].kind = "status"
      /\ reports[r].history[i].status = reports[r].history[i + 1].status

\* C9: updateReportStatus with the report's current status is answered 400 and
\* changes nothing; the handler never goes on to save such a request.
TheoremC9 ==
  [][/\ \A c \in Clients :
          (req[c].pc = "idle" /\ req'[c].pc = "st_save")
          => req'[c].arg # reports[req'[c].rid].status
     /\ (/\ ops' = ops + 1 /\ req' = req /\ resp'.op = "status"
         /\ Exists(resp'.rid) /\ resp'.arg = reports[resp'.rid].status)
        => (resp'.code = 400 /\ reports' = reports)]_vars

\* a report that has changed status is asked to take the status it has
WitnessC9 ==
  /\ resp.op = "status" /\ resp.code = 400 /\ Exists(resp.rid)
  /\ resp.arg = reports[resp.rid].status
  /\ resp.arg # "reported"

\* C10: a report has a rejection reason exactly when its status is rejected.
ClaimC10 ==
  \A r \in DOMAIN reports :
    (reports[r].rejectionReason # "") <=> (reports[r].status = "rejected")

\* C11: rejectReport on a report that is already rejected is answered 400 and
\* changes no field of any report, whatever the reason; the handler never goes
\* on to save such a request.
TheoremC11 ==
  [][/\ \A c \in Clients :
          (req[c].pc = "idle" /\ req'[c].pc = "rj_save")
          => reports[req'[c].rid].status # "rejected"
     /\ (/\ ops' = ops + 1 /\ req' = req /\ resp'.op = "reject"
         /\ Exists(resp'.rid) /\ reports[resp'.rid].status = "rejected")
        => (resp'.code = 400 /\ reports' = reports)]_vars

\* a report rejected with one reason was asked to be rejected with another,
\* acceptable one
WitnessC11 ==
  /\ resp.op = "reject" /\ resp.code = 400 /\ ReasonOk(resp.arg)
  /\ Exists(resp.rid) /\ reports[resp.rid].status = "rejected"
  /\ reports[resp.rid].rejectionReason # ""
  /\ reports[resp.rid].rejectionReason # resp.arg

\* the accepted reason lengths as the claim states them
InRange(reason) == Len(reason) >= 10 /\ Len(reason) <= 500

\* C12: rejectReport on an existing report that is not rejected succeeds
\* exactly when the length of the reason is in [10,500]: outside it the call is
\* answered 400 and changes nothing, inside it the call is answered 200 and
\* the report is rejected.
TheoremC12 ==
  [][\A c \in Clients :
       /\ (/\ ops' = ops + 1 /\ req' = req /\ resp'.op = "reject"
           /\ Exists(resp'.rid) /\ reports[resp'.rid].status # "rejected")
          => (~InRange(resp'.arg) /\ resp'.code = 400 /\ reports' = reports)
       /\ (req[c].pc = "idle" /\ req'[c].pc = "rj_save") => InRange(req'[c].arg)
       /\ (req[c].pc = "rj_save" /\ req'[c].pc = "idle")
          => (resp'.code = 200 /\ reports'[req[c].rid].status = "rejected")]_vars

\* a reason of 500 characters was accepted; the history entry the hook wrote
\* for it is longer than the notes of an entry may be
WitnessC12 ==
  /\ resp.op = "reject" /\ resp.code = 200 /\ Len(resp.arg) = 500
  /\ reports[resp.rid].rejectionReason = resp.arg
  /\ \E i \in 1 .. Len(reports[resp.rid].history) :
       NotesLen(reports[resp.rid].history[i]) > NotesMaxLen

\* C13: a successful rejectReport sets status rejected and rejectionReason to
\* the given reason and appends exactly one history entry: its status is
\* rejected, its notes are "Rejected: " followed by the reason, its updatedBy
\* is the acting administrator.
TheoremC13 ==
  [][\A c \in Clients :
       Succeeds(c, "rj_save") =>
         LET old == reports[req[c].rid]
             new == reports'[req[c].rid]
             e == new.history[Len(new.history)]
         IN /\ new.status = "rejected"
            /\ new.rejectionReason = req[c].arg
            /\ new.history = Append(old.history, e)
            /\ e.status = "rejected"
            /\ NotesText(e) = "Rejected: " \o req[c].arg
            /\ e.updatedBy = req[c].uid /\ req[c].uid = AdminId]_vars

\* a report whose status had been changed before was rejected
WitnessC13 ==
  /\ resp.op = "reject" /\ resp.code = 200
  /\ LET h == reports[resp.rid].history
     IN /\ Len(h) >= 3
        /\ h[Len(h)].kind = "rejected" /\ h[Len(h)].arg = resp.arg
        /\ h[Len(h) - 1].kind # "rejected"

\* C14: rejected is terminal: no step of any operation changes the status of
\* a rejected report.
ClaimC14 ==
  [][\A r \in DOMAIN reports :
       reports[r].status = "rejected" => reports'[r].status = "rejected"]_vars

\* the types of a media list, in its order
MediaTypes(media) == [i \in 1 .. Len(media) |-> media[i].type]

TheoremC16 ==
  [][/\ \A r \in DOMAIN reports' : Len(reports'[r].media) >= 1
     /\ (/\ ops' = ops + 1 /\ req' = req /\ resp'.op = "create"
         /\ resp'.files = <<>>)
        => (/\ resp'.code = 400
            /\ reports' = reports /\ store' = store /\ upl' = upl
            /\ nextId' = nextId)]_vars

\* a request without files was refused while a report created with files is
\* stored
WitnessC16 ==
  /\ resp.op = "create" /\ resp.code = 400 /\ resp.files = <<>>
  /\ \E r \in DOMAIN reports : Len(reports[r].media) >= 1

\* C17: in every reachable state no user id occurs twice in a report's
\* upvotedBy, and upvotes is non-negative.
ClaimC17 ==
  \A r \in DOMAIN reports :
    /\ reports[r].upvotes >= 0
    /\ \A i, j \in 1 .. Len(reports[r].upvotedBy) :
         reports[r].upvotedBy[i] = reports[r].upvotedBy[j] => i = j

\* C18: a toggleUpvote call appends a history entry exactly when it changes
\* the stored severity, and then one entry; the entry carries the status of the
\* report, which the call leaves unchanged, and updatedBy null, not the id of
\* the user who toggled.
TheoremC18 ==
  [][\A c \in Clients :
       Succeeds(c, "up_save") =>
         LET old == reports[req[c].rid]
             new == reports'[req[c].rid]
             changed == new.severity # old.severity
             e == new.history[Len(new.history)]
         IN /\ IsPrefix(old.history, new.history)
            /\ Len(new.history) = Len(old.history) + (IF changed THEN 1 ELSE 0)
            /\ new.status = old.status
            /\ changed => (/\ e.kind = "severity" /\ e.arg = new.severity
                           /\ e.n = new.upvotes
                           /\ e.status = old.status
                           /\ e.updatedBy = NULL /\ e.updatedBy # req[c].uid)]_vars

\* a toggle has changed the severity and its entry is the last of the history
WitnessC18 ==
  /\ resp.op = "upvote" /\ resp.code = 200 /\ resp.severityUpgraded
  /\ LET h == reports[resp.rid].history
     IN /\ Len(h) >= 3
        /\ h[Len(h)].kind = "severity" /\ h[Len(h)].updatedBy = NULL
        /\ h[Len(h)].n = resp.upvotes

\* C19: deleteMedia returns false, and throws nothing, when the store fails;
\* deleteMultipleMedia calls it for every element of its input, also after
\* failures, throws nothing, and its success and failed lists partition the
\* public ids of the input.
TheoremC19 ==
  /\ \A o \in DestroyOutcomes :
       ~deleteMedia(o).threw /\ (deleteMedia(o).value <=> o = "ok")
  /\ (resp.op = "create" /\ resp.failedAt > 1) =>
       /\ resp.error # "delete"
       /\ resp.issued = [i \in 1 .. (resp.failedAt - 1) |-> PublicId(resp.rid, i)]
       /\ Len(resp.success) + Len(resp.failed) = Len(resp.issued)
       /\ Range(resp.success) \cup Range(resp.failed) = Range(resp.issued)
       /\ Range(resp.success) \cap Range(resp.failed) = {}
       /\ \A id \in Range(resp.success) : id \notin store

\* the first delete of a rollback failed and the second one was made and
\* succeeded
WitnessC19 ==
  /\ resp.op = "create" /\ resp.failedAt = 3
  /\ resp.failed = <<resp.issued[1]>> /\ resp.success = <<resp.issued[2]>>

\* C20: when an upload fails in createReport the caller gets one failure
\* response carrying the upload error, whether the rollback deletes succeed or
\* not, and the report is not persisted.
TheoremC20 ==
  (resp.op = "create" /\ resp.failedAt > 0) =>
    /\ resp.code = 500 /\ resp.error = "upload"
    /\ ~Exists(resp.rid)

\* every delete of the rollback failed
WitnessC20 ==
  /\ resp.op = "create" /\ resp.failedAt > 1 /\ resp.error = "upload"
  /\ resp.failed = resp.issued /\ resp.success = <<>>
  /\ Range(resp.issued) \subseteq store

\* C21: a createReport request whose caller closed the connection after some
\* files were uploaded and before the report was persisted is rolled back like
\* a failed upload: it persists no report and a delete is issued for every file
\* it had uploaded, so no file of the request is left in the media store
\* without a report.
ClaimC21 ==
  (resp.op = "create" /\ resp.abortedAt > 0) =>
    /\ resp.code = 500
    /\ Len(resp.issued) >= resp.abortedAt
    /\ \A k \in 1 .. resp.abortedAt : resp.issued[k] = PublicId(resp.rid, k)
    /\ ~Exists(resp.rid)

\* the number a query text denotes, in tenths, when it is a plain decimal: an
\* optional sign, digits, and at most a point with one digit
IsDecimal(text) ==
  LET i == IF Len(text) > 0 /\ text[1] = "-" THEN 2 ELSE 1
      n == IF i > Len(text) THEN 0 ELSE DigitRun(text, i)
  IN /\ n > 0
     /\ \/ i + n > Len(text)
        \/ i + n + 1 = Len(text) /\ text[i + n] = "." /\ IsDigit(text[i + n + 1])

\* the caller gave a number outside lo .. hi (tenths)
Outside(text, lo, hi) ==
  IsDecimal(text) /\ (parseFloat(text).v < lo \/ parseFloat(text).v > hi)

\* C22: getNearbyReports with lat outside [-90,90], lng outside [-180,180],
\* radius outside [100,50000] or limit outside [1,100], or with lat or lng
\* missing, is answered with a validation error and runs no query; a request
\* that passes validation queries with values inside those ranges, with radius
\* 5000 and limit 100 when they are omitted.
ClaimC22 ==
  view.op = "nearby" =>
    /\ (\/ view.given.lat = <<>> \/ view.given.lng = <<>>
        \/ Outside(view.given.lat, -900, 900)
        \/ Outside(view.given.lng, -1800, 1800)
        \/ Outside(view.given.radius, 1000, 500000)
        \/ Outside(view.given.limit, 10, 1000))
       => (view.code = 400 /\ ~view.queried)
    /\ view.code = 200 =>
         /\ view.queried
         /\ view.query.lat \in -900 .. 900 /\ view.query.lng \in -1800 .. 1800
         /\ view.query.radius \in 100 .. 50000 /\ view.query.limit \in 1 .. 100
         /\ view.given.radius = <<>> => view.query.radius = 5000
         /\ view.given.limit = <<>> => view.query.limit = 100

\* the report lies at the centre of the answered query / farther from it than
\* the queried radius / is among the reports returned
AtCentre(r) == Distance(reports[r].location, view.query) = 0
Beyond(r) == Distance(reports[r].location, view.query) > view.query.radius
Returned(r) == \E i \in 1 .. Len(view.items) : view.items[i] = r

\* C23 as stated: for every accepted nearby query without filters, a report
\* exactly at the query centre is in the result and a report farther from the
\* centre than the radius is not.
ClaimC23 ==
  (view.op = "nearby" /\ view.code = 200) =>
    \A r \in DOMAIN reports :
      /\ AtCentre(r) => Returned(r)
      /\ Beyond(r) => ~Returned(r)

\* C23: for every accepted nearby query without filters, a report farther
\* from the centre than the radius is not in the result, and a report exactly
\* at the centre is in the result unless the result is full (limit reports)
\* and made of reports at the centre only.
TheoremC23 ==
  (view.op = "nearby" /\ view.code = 200) =>
    \A r \in DOMAIN reports :
      /\ AtCentre(r) =>
           \/ Returned(r)
           \/ /\ Len(view.items) = view.query.limit
              /\ \A i \in 1 .. Len(view.items) : AtCentre(view.items[i])
      /\ Beyond(r) => ~Returned(r)

\* a query returned the report at its centre and left out one beyond its radius
WitnessC23 ==
  /\ view.op = "nearby" /\ view.code = 200
  /\ \E r, q \in DOMAIN reports :
       AtCentre(r) /\ Returned(r) /\ Beyond(q) /\ ~Returned(q)

\* the matching reports of the answered listing, counted from the collection
Total == Cardinality({r \in DOMAIN reports :
                        view.given.user = NULL \/ reports[r].user = view.given.user})

\* the number a listing was asked with, or its default
Asked(text, default) == IF text = <<>> THEN default ELSE parseInt(text).v

\* C24: a listing with page size L >= 1 and page >= 1 answers 200 with total
\* T, the number of matching reports, and pages = ceil(T/L), the least n with
\* n * L >= T; a page number greater than pages gives an empty list, not an
\* error.
TheoremC24 ==
  (/\ view.op \in {"myReports", "allReports"}
   /\ Asked(view.given.page, 1) >= 1 /\ Asked(view.given.limit, 20) >= 1) =>
    /\ view.code = 200
    /\ view.total = Total
    /\ view.pages * view.query.limit >= view.total
    /\ (view.pages - 1) * view.query.limit < view.total \/ view.pages = 0
    /\ view.query.page > view.pages => view.items = <<>>
    /\ view.query.page <= view.pages => view.items # <<>>

\* a page beyond the last was asked of a listing whose last page is not full
WitnessC24 ==
  /\ view.op \in {"myReports", "allReports"} /\ view.code = 200
  /\ view.query.limit = 2 /\ view.total = 3 /\ view.pages = 2
  /\ view.query.page = 3 /\ view.items = <<>>

\* C25: deleteUser(u) never deletes a report: no step of it changes the set
\* of report ids, and its last step sets the owner of every report owned by u
\* to null and leaves every other report, owner included, as it was.
TheoremC25 ==
  [][/\ req[1].op = "deleteUser" => DOMAIN reports' = DOMAIN reports
     /\ (req[1].pc = "du_update" /\ req'[1].pc = "idle") =>
          /\ resp'.op = "deleteUser" /\ resp'.code = 200
          /\ req[1].rid \notin users'
          /\ \A r \in DOMAIN reports :
               reports'[r] = IF reports[r].user = req[1].rid
                             THEN [reports[r] EXCEPT !.user = NULL]
                             ELSE reports[r]]_vars

\* a user who owned a report was deleted: that report is kept without owner
\* next to a report that kept its owner
WitnessC25 ==
  /\ resp.op = "deleteUser" /\ resp.code = 200 /\ resp.rid \notin users
  /\ \E r, q \in DOMAIN reports :
       reports[r].user = NULL /\ reports[q].user \in users

\* C26: updateUserStatus, updateUserRole and deleteUser whose target is the
\* acting admin are answered 400 and leave the admin's isActive, role and
\* existence unchanged: the call is answered at once and never goes on to the
\* save or the delete.
TheoremC26 ==
  [][/\ (/\ req[1].pc = "idle" /\ resp' # resp
         /\ resp'.op \in {"updateUserStatus", "updateUserRole", "deleteUser"}
         /\ resp'.rid = resp'.uid)
        => /\ resp'.code = 400
           /\ accounts' = accounts /\ users' = users /\ reports' = reports
           /\ req' = req
     /\ req'[1].op \in {"updateUserStatus", "updateUserRole", "deleteUser"}
        => req'[1].rid # req'[1].uid]_vars

\* a user promoted to admin asked to deactivate their own account and is
\* still active
WitnessC26 ==
  /\ resp.op = "updateUserStatus" /\ resp.arg = "false"
  /\ resp.rid = resp.uid /\ resp.code = 400
  /\ resp.uid \in users /\ resp.uid # AdminId
  /\ accounts[resp.uid].isActive /\ accounts[resp.uid].role = "admin"

\* C30: a request with an unexpired token of user u passes protect only if u
\* exists, is active and is verified at that time; once isActive is false, the
\* requests of u are answered 403.
TheoremC30 ==
  [][(resp'.op = "protect" /\ resp' # resp) =>
       LET u == resp'.uid
       IN /\ resp'.code = 200 =>
               u \in users /\ accounts[u].isActive /\ accounts[u].isVerified
          /\ (u \in users /\ ~accounts[u].isActive) => resp'.code = 403]_vars

\* a user deactivated by an admin was refused with 403
WitnessC30 ==
  /\ resp.op = "protect" /\ resp.code = 403
  /\ resp.uid \in users /\ ~accounts[resp.uid].isActive
  /\ accounts[resp.uid].isVerified

\* the lock of user u is in force
Locked(u) == accounts[u].otpLockedUntil # 0 /\ now < accounts[u].otpLockedUntil

\* the stored OTP of user u can be compared: the user is not verified and not
\* locked, and the OTP is there and has not expired
Comparable(u) ==
  /\ u \in users /\ ~accounts[u].isVerified /\ ~Locked(u)
  /\ accounts[u].hasOtp /\ ~isOTPExpired(accounts[u].otpExpires)

\* C27: a wrong OTP compared for an unverified user counts as a failed
\* attempt; the fifth in a row is answered 429, sets a lock of 15 minutes and
\* resets the counter to 0; while the lock is in force every verify request, by
\* POST or by URL, is answered 429 and leaves the account as it was, also when
\* the OTP sent is the stored one.
TheoremC27 ==
  [][(ops' # ops /\ resp'.op \in {"VerifyOTP", "VerifyOTPByURL"}) =>
       LET u == resp'.uid
       IN /\ (u \in users /\ ~accounts[u].isVerified /\ Locked(u)) =>
               /\ resp'.code = 429 /\ resp'.error = "locked"
               /\ accounts' = accounts
          /\ (Comparable(u) /\ resp'.arg = "wrong") =>
               IF accounts[u].otpAttempts = OtpMaxAttempts - 1
               THEN /\ resp'.code = 429
                    /\ accounts'[u].otpLockedUntil = now + OtpLockMinutes
                    /\ accounts'[u].otpAttempts = 0
                    /\ ~accounts'[u].isVerified
               ELSE /\ resp'.code = 400
                    /\ accounts'[u].otpAttempts = accounts[u].otpAttempts + 1
                    /\ accounts'[u].otpLockedUntil = accounts[u].otpLockedUntil
          /\ accounts'[u].isVerified /\ ~accounts[u].isVerified =>
               Comparable(u) /\ resp'.arg = "correct"
          /\ accounts[u].otpAttempts < OtpMaxAttempts]_vars

\* a locked account was refused with 429 and is still locked and unverified
WitnessC27 ==
  /\ resp.op \in {"VerifyOTP", "VerifyOTPByURL"} /\ resp.code = 429
  /\ resp.error = "locked"
  /\ Locked(resp.uid) /\ ~accounts[resp.uid].isVerified
  /\ accounts[resp.uid].otpAttempts = 0

\* C28: within one request window at most 3 OTPs are issued for a user by
\* register and resendOTP: the request counter of an account never exceeds 3,
\* every OTP issued counts one, or starts a new window at 1 once the old one
\* has ended, and a resendOTP request answered 429 leaves the stored OTP, its
\* expiry and the counters as they were.
TheoremC28 ==
  [][/\ \A u \in users' : accounts'[u].otpRequestCount <= OtpMaxRequests
     /\ \A u \in users' \ users :
          /\ resp'.op = "register" /\ resp'.code = 201
          /\ accounts'[u].hasOtp /\ accounts'[u].otpRequestCount = 1
          /\ accounts'[u].otpRequestResetAt = now + OtpWindowMinutes
     /\ \A u \in users \cap users' :
          (\/ accounts'[u].otp # accounts[u].otp /\ accounts'[u].hasOtp
           \/ accounts'[u].otpExpires # accounts[u].otpExpires /\ accounts'[u].hasOtp
           \/ accounts'[u].otpRequestCount # accounts[u].otpRequestCount
           \/ accounts'[u].otpRequestResetAt # accounts[u].otpRequestResetAt) =>
            /\ resp'.op = "resendOTP" /\ resp'.code \in {200, 500}
            /\ IF now < accounts[u].otpRequestResetAt
               THEN /\ accounts'[u].otpRequestCount = accounts[u].otpRequestCount + 1
                    /\ accounts'[u].otpRequestResetAt = accounts[u].otpRequestResetAt
               ELSE /\ accounts'[u].otpRequestCount = 1
                    /\ accounts'[u].otpRequestResetAt = now + OtpWindowMinutes
     /\ (ops' # ops /\ resp'.op = "resendOTP" /\ resp'.code = 429) =>
          accounts' = accounts /\ users' = users]_vars

\* the third OTP of a window was issued and a further request was refused by
\* resendOTP itself
WitnessC28 ==
  /\ resp.op = "resendOTP" /\ resp.code = 429 /\ resp.error = "limit"
  /\ accounts[resp.uid].otpRequestCount = OtpMaxRequests
  /\ now < accounts[resp.uid].otpRequestResetAt

\* the request just answered names no report: its id is not the id of a
\* stored report
Absent(rid) == ~Exists(rid)

\* C29: updateReportStatus with a status outside the six valid ones is
\* answered 400; updateReportStatus, rejectReport and toggleUpvote on an id
\* that has no report are answered 404 (when the status and the reason sent
\* are valid); in both cases no report is created or modified.
ClaimC29 ==
  [][(ops' = ops + 1 /\ resp' # resp) =>
       /\ (resp'.op = "status" /\ resp'.arg \notin validStatuses) =>
            resp'.code = 400 /\ reports' = reports /\ nextId' = nextId
       /\ (/\ resp'.op \in {"status", "reject", "upvote"}
           /\ Absent(resp'.rid)
           /\ resp'.op = "status" => resp'.arg \in validStatuses
           /\ resp'.op = "reject" => ReasonOk(resp'.arg)) =>
            resp'.code = 404 /\ reports' = reports /\ nextId' = nextId]_vars

\* the operations of the admin routes that the model follows
AdminOps ==
  {"status", "reject", "updateUserStatus", "updateUserRole", "deleteUser"}

\* user u is stored with role admin
IsAdmin(u) == u \in users /\ accounts[u].role = "admin"

\* C31: a request to an admin route gets past the middleware only when the
\* role stored for its user at that time is admin, and a stored user of
\* another role who passes protect is answered 403; every admin handler that
\* answers or goes on to its write acts for a user stored as admin, and every
\* change of a report, a user or an account is made by the request of a user
\* stored as admin.
TheoremC31 ==
  [][/\ (resp'.op = "protect" /\ resp'.arg = "admin" /\ resp' # resp) =>
          /\ resp'.code = 200 => IsAdmin(resp'.uid)
          /\ (protect(resp'.uid) = 200 /\ ~IsAdmin(resp'.uid)) => resp'.code = 403
          /\ reports' = reports /\ users' = users /\ accounts' = accounts
     /\ (req[1].pc = "idle" /\ req'[1].pc # "idle") => IsAdmin(req'[1].uid)
     /\ (req[1].pc = "idle" /\ resp' # resp /\ resp'.op \in AdminOps) =>
          IsAdmin(resp'.uid)
     /\ (reports' # reports \/ users' # users \/ accounts' # accounts) =>
          /\ req[1].op \in AdminOps /\ req[1].pc # "idle"
          /\ IsAdmin(req[1].uid)]_vars

\* the first administrator, demoted by a user they had promoted, asked for an
\* admin route and was answered 403
WitnessC31 ==
  /\ resp.op = "protect" /\ resp.arg = "admin" /\ resp.code = 403
  /\ resp.uid = AdminId /\ AdminId \in users
  /\ accounts[AdminId].role = "user" /\ accounts[AdminId].isActive
  /\ \E u \in users : accounts[u].role = "admin"

\* C32: createReport answers a failed upload only after the rollback has made
\* its last delete (at once when nothing had been uploaded), and the first
\* failure ends the batch: files are uploaded only by a request that is still
\* uploading, in order, and a request that has started its rollback uploads
\* nothing more and ends in the failure response.
TheoremC32 ==
  [][/\ (resp' # resp /\ resp'.op = "create" /\ resp'.failedAt > 0) =>
          \E c \in Clients :
            /\ req[c].rid = resp'.rid /\ req'[c].pc = "idle"
            /\ IF resp'.failedAt = 1
               THEN req[c].pc = "cr_upload" /\ upl[c].uploaded = <<>>
               ELSE req[c].pc = "cr_rollback" /\ upl[c].next = Len(upl[c].uploaded)
            /\ Len(resp'.issued) = resp'.failedAt - 1
            /\ Len(resp'.success) + Len(resp'.failed) = Len(resp'.issued)
     /\ \A id \in store' \ store :
          \E c \in Clients :
            req[c].pc = "cr_upload" /\ id = PublicId(req[c].rid, upl[c].next)
     /\ \A c \in Clients :
          req[c].pc = "cr_rollback" =>
            /\ Len(upl[c].uploaded) = upl[c].failedAt - 1
            /\ \A id \in store : id[1] = req[c].rid => id[2] < upl[c].failedAt
            /\ \/ req'[c] = req[c] /\ upl'[c].uploaded = upl[c].uploaded
                  /\ upl'[c].failedAt = upl[c].failedAt
               \/ /\ req'[c].pc = "idle" /\ resp'.op = "create" /\ resp'.code = 500
                  /\ resp'.rid = req[c].rid /\ resp'.failedAt = upl[c].failedAt]_vars

\* the second of three files failed: the first was deleted, the third never
\* uploaded
WitnessC32 ==
  /\ resp.op = "create" /\ resp.code = 500 /\ resp.failedAt = 2
  /\ Len(resp.files) = 3 /\ resp.issued = <<PublicId(resp.rid, 1)>>
  /\ \A k \in 1 .. 3 : PublicId(resp.rid, k) \notin store

\* C33: when createReport has ended without a persisted report, every file
\* of the call that is in the media store has had a delete issued for it, also
\* when the uploads succeeded and report.save() failed.
ClaimC33 ==
  (resp.op = "create" /\ resp.code = 500 /\ ~Exists(resp.rid)) =>
    \A id \in store : id[1] = resp.rid => id \in Range(resp.issued)

\* C34: with createReport and toggleUpvote calls made one after the other,
\* the counter upvotes of every report equals the number of elements of its
\* upvotedBy, in every reachable state.
TheoremC34 ==
  \A r \in DOMAIN reports : reports[r].upvotes = Len(reports[r].upvotedBy)

\* upvotes were given and one was withdrawn, and more than one is left
WitnessC34 ==
  /\ toggles.removed /\ req[1].pc = "idle"
  /\ Len(reports[1].upvotedBy) >= 2
  /\ Len(toggles.log) = 2 /\ toggles.log[2].hasUpvoted

\* C35: in every reachable state the status of the last history entry of a
\* report is the report's status, also when a toggle that changes the severity
\* overlaps a status change or a rejection of the same report.
ClaimC35 ==
  \A r \in DOMAIN reports :
    /\ Len(reports[r].history) >= 1
    /\ reports[r].history[Len(reports[r].history)].status = reports[r].status

\* the stored reports other than rid are left as they are, and none is added
\* or removed
OthersKept(rid) ==
  /\ DOMAIN reports' = DOMAIN reports
  /\ \A r \in DOMAIN reports \ {rid} : reports'[r] = reports[r]

\* C36: the save of updateReportStatus and of rejectReport leaves upvotes,
\* upvotedBy, severity, media and owner of the report as stored; the save of
\* toggleUpvote leaves status, rejectionReason, media and owner as stored; each
\* leaves every other report unchanged, and the steps before the save change
\* no report.
TheoremC36 ==
  [][\A c \in Clients :
       LET rid == req[c].rid
           old == reports[rid]
           new == reports'[rid]
       IN /\ (req[c].pc \in {"st_save", "rj_save"} /\ req'[c].pc = "idle") =>
               /\ new.upvotes = old.upvotes /\ new.upvotedBy = old.upvotedBy
               /\ new.severity = old.severity /\ new.media = old.media
               /\ new.user = old.user
               /\ OthersKept(rid)
          /\ (req[c].pc = "up_save" /\ req'[c].pc = "idle") =>
               /\ new.status = old.status
               /\ new.rejectionReason = old.rejectionReason
               /\ new.media = old.media /\ new.user = old.user
               /\ OthersKept(rid)
          /\ (req[c].pc = "idle" /\ req'[c] # req[c]) => reports' = reports]_vars

\* the status of an upvoted report was changed while another report is
\* rejected
WitnessC36 ==
  /\ resp.op = "status" /\ resp.code = 200
  /\ reports[resp.rid].upvotes >= 1 /\ reports[resp.rid].status = resp.arg
  /\ \E q \in DOMAIN reports :
       /\ q # resp.rid /\ reports[q].status = "rejected"
       /\ reports[q].upvotes = 0

\* C37: some stored user is an active admin, in every state that
\* updateUserStatus, updateUserRole and deleteUser requests of users who passed
\* the admin check can reach, one after the other or interleaved.
ClaimC37 ==
  \E u \in users : accounts[u].role = "admin" /\ accounts[u].isActive

\* C38: while the lock of an unverified user is in force, no register,
\* verify or resend request clears or shortens it: the user stays stored with
\* the same otpLockedUntil, and no request compares an OTP for that user.
ClaimC38 ==
  [][\A u \in users :
       (~accounts[u].isVerified /\ Locked(u)) =>
         /\ u \in users'
         /\ accounts'[u].otpLockedUntil = accounts[u].otpLockedUntil
         /\ (ops' # ops /\ resp'.uid = u) => resp'.arg \notin {"wrong", "correct"}]_vars

====
